---- MODULE Spec2Model ----
(***************************************************************************)
(* Model of the check-execution and worker pipeline of web-health-monitor: *)
(* the task queue (messaging.py), the consumer callback and its two        *)
(* handlers (worker.py), the liveness probe (checker.py), the circuit      *)
(* breaker configured around the probe (worker.py:30) and the persisted    *)
(* Monitor / CheckResult rows (models.py).                                 *)
(***************************************************************************)
EXTENDS Integers, Sequences, FiniteSets, TLC

VARIABLES
    monitors,   \* the monitors table: id -> Monitor row
    results,    \* the check_results table, in insertion order
    queue,      \* the durable queue "health_checks": message bodies, FIFO
    pc,         \* the worker's position: "idle", "processing", "acking"
    delivery,   \* the body handed to callback and not yet acknowledged
    outcome,    \* what callback did with the last delivery
    acks,       \* how many times the current delivery was acknowledged
    breaker,    \* the circuit breaker instance of the worker process
    now,        \* the monotonic clock, in seconds
    probe_in,   \* SpecProbe: the answer of the network to one probe
    probe_out,  \* SpecProbe: what HTTPCheckStrategy.check returned for it
    stats_call, \* SpecStats: the arguments of the last Monitor.update_stats call
    ax,         \* SpecAudit: the answers of the audit API and what the executor did
    producer,   \* SpecProducer: the run of a periodic job that is under way
    wire,       \* SpecWire: a publish_check call and what callback made of its message
    consumer,   \* SpecMain: the worker's main loop, its connection and its exit
    batch,      \* SpecBatch: the probes of one run of the command-line batch
    factory,    \* SpecFactory: a key given to get_strategy and what came back
    api,        \* SpecApi: the last request to the v1 API and its response
    report,     \* SpecReport: a PageSpeed payload and the record made of it
    pool        \* SpecPool: the worker processes that share the queue and the database

\* The variables of the specifications of single functions and of the API.
aside == <<wire, consumer, batch, factory, api, report, pool>>

vars == <<monitors, results, queue, pc, delivery, outcome, acks, breaker, now, probe_in, probe_out,
          stats_call, ax, producer, aside>>

--------------------------------------------------------------------------
\* Bounds of the model.
MaxQueue == 1
MaxResults == 1
MaxHealthyResults == 5
MaxTime == 60
TickStep == 30

\* Python's None, for integer-valued and for string-valued fields.
NoneInt == -1
NoneStr == "<None>"

\* Program constants.
failure_threshold == 5
recovery_timeout == 60
default_retry_count == 2
default_timeout_seconds == 10
default_retry_attempts == 0

\* Monitor ids present in the table at start, and one id that is in no row.
MonitorIds == {1}
UnknownId == 1 + Cardinality(MonitorIds)

--------------------------------------------------------------------------
\* models.py: a freshly created Monitor row (column defaults); uptime_percentage
\* is kept in hundredths of a percent (100.0 is 10000).  strategy is the column
\* that app.py:87 adds to the table, with its default.
NewMonitor(id) ==
    [ id |-> id, url |-> "https://example.com", is_active |-> TRUE,
      total_checks |-> 0, successful_checks |-> 0, uptime_percentage |-> 10000,
      avg_response_ms |-> NoneInt, last_status |-> NoneStr,
      timeout_seconds |-> default_timeout_seconds, retry_count |-> default_retry_count,
      perf_score |-> NoneInt, strategy |-> "mobile" ]

\* round(x, 2) of models.py:39 for x = n / d * 100 in hundredths: the nearest
\* hundredth, a tie going to the even one (the ties are multiples of 1/8, which
\* a float holds exactly).
Round2(n, d) ==
    LET q == (n * 10000) \div d
        r == (n * 10000) % d
    IN  IF 2 * r > d THEN q + 1
        ELSE IF 2 * r < d THEN q
        ELSE IF q % 2 = 0 THEN q ELSE q + 1

\* A nullable Boolean column holding a bool.
PyBool(b) == IF b THEN "True" ELSE "False"

\* Mutant: the uptime is cut to two decimals, not rounded.
UptimeOf_floor(successful, total) == (successful * 10000) \div total

\* models.py:39: the uptime percentage of the two counters.
UptimeOf(successful, total) == Round2(successful, total)

\* Mutant: every sample is counted as a success.
SuccessesAfter_always(successful, is_up) == successful + 1

\* models.py:35-36: the successes after one more sample.
SuccessesAfter(successful, is_up) == IF is_up THEN successful + 1 ELSE successful

\* models.py:47: int(old * 0.8 + sample * 0.2); int() cuts the fraction off.
Ema(old, sample) == (old * 8 + sample * 2) \div 10

\* models.py:42-47: the average response time after one more sample.
AvgAfter(avg, is_up, response_ms) ==
    IF response_ms # NoneInt /\ is_up
    THEN IF avg = NoneInt THEN response_ms ELSE Ema(avg, response_ms)
    ELSE avg

\* models.py Monitor.update_stats: the row after the call.
update_stats(m, is_up, response_ms) ==
    LET total == m.total_checks + 1
        successful == SuccessesAfter(m.successful_checks, is_up)
    IN  [ m EXCEPT !.total_checks = total,
                   !.successful_checks = successful,
                   !.uptime_percentage = IF total > 0 THEN UptimeOf(successful, total) ELSE @,
                   !.avg_response_ms = AvgAfter(@, is_up, response_ms),
                   !.last_status = PyBool(is_up) ]

--------------------------------------------------------------------------
\* The liveness probe.  A network answer is either an HTTP response (after
\* redirects) or an exception raised by the client; ms is the elapsed time.
HttpResp(status, ms) == [kind |-> "http", status |-> status, text |-> NoneStr, ms |-> ms]
ExcResp(text, ms) == [kind |-> "exc", status |-> NoneInt, text |-> text, ms |-> ms]

\* A call either returns a value or raises.
Returned(v) == [raised |-> FALSE, value |-> v]
Raised(e) == [raised |-> TRUE, value |-> e]

\* Mutant: the upper limit of the up range taken inclusive.
HTTPCheck_inclusive_400(resp) ==
    IF resp.kind = "http"
    THEN Returned([ is_up |-> (200 <= resp.status /\ resp.status <= 400),
                    status_code |-> resp.status,
                    response_ms |-> resp.ms,
                    error |-> NoneStr ])
    ELSE Returned([ is_up |-> FALSE,
                    status_code |-> NoneInt,
                    response_ms |-> resp.ms,
                    error |-> resp.text ])

\* Mutant: the exception of the client is not caught.
HTTPCheck_reraise(resp) ==
    IF resp.kind = "http"
    THEN Returned([ is_up |-> (200 <= resp.status /\ resp.status < 400),
                    status_code |-> resp.status,
                    response_ms |-> resp.ms,
                    error |-> NoneStr ])
    ELSE Raised(resp.text)

\* checker.py:21-22: the timeout of the probe's client, in seconds, and how often
\* the probe tries again after its one GET.
client_timeout == 5
probe_retries == 0

\* The request a probe of the monitor makes (checker.py:166, 21-22).
ProbeRequest(monitor) ==
    [url |-> monitor.url, timeout |-> client_timeout, retries |-> probe_retries]
NoRequest == [url |-> NoneStr, timeout |-> NoneInt, retries |-> NoneInt]

\* checker.py HTTPCheckStrategy.check: one GET, every exception caught.
HTTPCheck(resp) ==
    IF resp.kind = "http"
    THEN Returned([ is_up |-> (200 <= resp.status /\ resp.status < 400),
                    status_code |-> resp.status,
                    response_ms |-> resp.ms,
                    error |-> NoneStr ])
    ELSE Returned([ is_up |-> FALSE,
                    status_code |-> NoneInt,
                    response_ms |-> resp.ms,
                    error |-> resp.text ])

\* checker.py LogAlertObserver.update, reached through alert_system.notify: the
\* alert is printed only for a down result; alert_ok is whether that print succeeds
\* (print raises when stdout is closed or cannot encode the text).  It is the one
\* statement of the wrapped call that is under no try/except.
AlertNotify(result, alert_ok) ==
    IF (~result.is_up) /\ ~alert_ok THEN Raised("print failed") ELSE Returned(result)

\* checker.py run_check_on_monitor: the probe, then the observers, then the result.
run_check_on_monitor(monitor, resp, alert_ok) ==
    LET c == HTTPCheck(resp)
    IN  IF c.raised THEN c ELSE AlertNotify(c.value, alert_ok)

--------------------------------------------------------------------------
\* The circuit breaker that worker.py:30 puts around resilient_check:
\* @circuit(failure_threshold=5, recovery_timeout=60).  The decorator awaits the
\* coroutine inside the breaker, so a failure is an exception of the awaited call.
NewBreaker(t) == [state |-> "closed", failure_count |-> 0, opened |-> t]

\* Mutant: an open breaker never recovers.
CBState_stuck(b, t) == b.state

\* The state a caller sees: an open breaker whose recovery time is over is half-open.
CBState(b, t) ==
    IF b.state = "open" /\ (b.opened + recovery_timeout) - t <= 0
    THEN "half_open"
    ELSE b.state

\* A wrapped call that returned: the breaker closes and forgets the failures.
CallSucceeded(b) == [b EXCEPT !.state = "closed", !.failure_count = 0]

\* A wrapped call that raised: one more failure; at the threshold the breaker
\* opens and the recovery timer starts again.
CallFailed(b, t) ==
    LET n == b.failure_count + 1
    IN  IF n >= failure_threshold
        THEN [state |-> "open", failure_count |-> n, opened |-> t]
        ELSE [b EXCEPT !.failure_count = n]

\* Mutant: the decorator lets every call through.
Admitted_always(b, t) == TRUE

\* Whether the decorator lets a call through to the wrapped function.
Admitted(b, t) == CBState(b, t) # "open"

\* worker.py resilient_check, decorated: the completion of the call, the breaker
\* after it, and whether the wrapped function (hence an HTTP request) ran.
resilient_check(b, t, monitor, resp, alert_ok) ==
    IF ~Admitted(b, t)
    THEN [call |-> Raised("CircuitBreakerError"), breaker |-> b, probed |-> FALSE]
    ELSE LET c == run_check_on_monitor(monitor, resp, alert_ok)
         IN  [call |-> c,
              breaker |-> IF c.raised THEN CallFailed(b, t) ELSE CallSucceeded(b),
              probed |-> TRUE]

--------------------------------------------------------------------------
\* The performance audit.  checker.py:49-50: the ceiling of the attempts and the
\* first wait, in seconds.
max_retries == 3
retry_delay == 5

\* An answer of the PageSpeed API to one request: an HTTP response, whose body
\* (read for a 200 only) is a Lighthouse report or JSON without "lighthouseResult",
\* or an exception raised by the client.
AuditHttp(status, body) == [kind |-> "http", status |-> status, body |-> body, text |-> NoneStr]
AuditExc(text) == [kind |-> "exc", status |-> NoneInt, body |-> NoneStr, text |-> text]

\* checker.py:92-105 and 112, 116, 123: the records check returns.
ScoreRecord == [error |-> NoneStr, perf_score |-> 950]
ErrorRecord(text) == [error |-> text, perf_score |-> NoneInt]
LimitReached == "Google API Limit Reached (429). Please add an API Key."

\* Mutant: the last attempt is followed by a wait as well.
MayRetry_one_more(attempt) == attempt < max_retries

\* checker.py:108 and 120: attempt is not the last one.
MayRetry(attempt) == attempt < max_retries - 1

\* Mutant: the wait after a 429 stays as it is.
DelayAfter429_constant(delay) == delay

\* checker.py:110: the wait doubles after a 429.
DelayAfter429(delay) == delay * 2

\* Mutant: every status but 200 is taken for a rate limit.
IsRateLimited_any_error(status) == status # 200

\* checker.py:106.
IsRateLimited(status) == status = 429

\* What check did: the requests made, the waits in their order, the call's completion.
AuditDone(requests, sleeps, record) ==
    [requests |-> requests, sleeps |-> sleeps, call |-> Returned(record)]

\* checker.py:53-124, the loop from attempt on: answers[i] is the answer to the
\* i-th request, delay the value of retry_delay, sleeps the waits so far.
RECURSIVE AuditLoop(_, _, _, _)
AuditLoop(answers, attempt, delay, sleeps) ==
    IF attempt >= max_retries
    THEN AuditDone(attempt, sleeps, ErrorRecord("Failed after max retries or unknown error"))
    ELSE LET r == answers[attempt + 1]
         IN  IF r.kind = "http" /\ r.status = 200 /\ r.body = "report"
             THEN AuditDone(attempt + 1, sleeps, ScoreRecord)
             ELSE IF r.kind = "http" /\ r.status # 200 /\ IsRateLimited(r.status)
             THEN IF MayRetry(attempt)
                  THEN AuditLoop(answers, attempt + 1, DelayAfter429(delay), Append(sleeps, delay))
                  ELSE AuditDone(attempt + 1, sleeps, ErrorRecord(LimitReached))
             ELSE IF r.kind = "http" /\ r.status # 200
             THEN AuditDone(attempt + 1, sleeps,
                            ErrorRecord("API Error " \o ToString(r.status)))
             \* the except branch: an exception of the client, or of reading the body
             ELSE IF MayRetry(attempt)
                  THEN AuditLoop(answers, attempt + 1, delay, Append(sleeps, delay))
                  ELSE AuditDone(attempt + 1, sleeps,
                                 ErrorRecord(IF r.kind = "exc" THEN r.text ELSE "'lighthouseResult'"))

\* checker.py PerformanceAuditStrategy.check.
AuditCheck(answers) == AuditLoop(answers, 0, retry_delay, << >>)

--------------------------------------------------------------------------
\* The queue's messages.  A body is a JSON object with the three keys, or something
\* callback cannot decode.  A key of the object holds its value, or null (None), or
\* is not there (AbsentStr; for monitor_id, which is read without a default, a key
\* that is not there reads as None).
AbsentStr == "<absent>"
JsonObject(monitor_id, task_type, strategy) ==
    [kind |-> "object", monitor_id |-> monitor_id, task_type |-> task_type, strategy |-> strategy]
RawBody(kind) ==
    [kind |-> kind, monitor_id |-> NoneInt, task_type |-> NoneStr, strategy |-> NoneStr]
NoTask == RawBody("none")

\* Bodies that are not the work of publish_check: bytes that are not UTF-8, text
\* that is not JSON, an object without monitor_id.
ForeignBodies ==
    { RawBody("undecodable"), RawBody("not_json"), JsonObject(NoneInt, "check", "mobile") }

\* messaging.py publish_check: the message as it is put on the queue; an argument
\* that the caller leaves out (AbsentStr) takes the default of the signature.
PublishedBody(monitor_id, task_type, strategy) ==
    JsonObject(monitor_id,
               IF task_type = AbsentStr THEN "check" ELSE task_type,
               IF strategy = AbsentStr THEN "mobile" ELSE strategy)

\* Mutant: the strategy of the message is not read.
Decode_no_strategy(body) ==
    IF body.kind # "object"
    THEN Raised(body.kind)
    ELSE Returned([ monitor_id |-> body.monitor_id,
                    task_type |-> IF body.task_type = AbsentStr THEN "check" ELSE body.task_type,
                    strategy |-> "mobile" ])

\* worker.py callback, lines 161-166: decode the body, with the defaults of data.get
\* (taken when the key is not there, not when it is null).
Decode(body) ==
    IF body.kind # "object"
    THEN Raised(body.kind)
    ELSE Returned([ monitor_id |-> body.monitor_id,
                    task_type |-> IF body.task_type = AbsentStr THEN "check" ELSE body.task_type,
                    strategy |-> IF body.strategy = AbsentStr THEN "mobile" ELSE body.strategy ])

\* Python truth of monitor_id (worker.py:168).
Truthy(monitor_id) == monitor_id # NoneInt /\ monitor_id # 0

\* worker.py callback, lines 161-172: the handler a body is given to ("decode_error"
\* when decoding raises, "none" when monitor_id is not true) and the decoded values.
Dispatch(body) ==
    LET d == Decode(body)
    IN  IF d.raised
        THEN [handler |-> "decode_error", monitor_id |-> NoneInt, task_type |-> NoneStr,
              strategy |-> NoneStr]
        ELSE [ handler |-> IF ~Truthy(d.value.monitor_id) THEN "none"
                           ELSE IF d.value.task_type = "audit" THEN "process_audit"
                           ELSE "process_check",
               monitor_id |-> d.value.monitor_id,
               task_type |-> d.value.task_type,
               strategy |-> d.value.strategy ]

--------------------------------------------------------------------------
\* Mutant: the row is written without the status code.
CheckResultRow_no_status(monitor, result) ==
    [ monitor_id |-> monitor.id,
      is_up |-> result.is_up,
      status_code |-> NoneInt,
      response_ms |-> result.response_ms,
      error |-> result.error,
      retry_attempts |-> 0,
      ssl_valid |-> NoneStr ]

\* worker.py:119-127: the CheckResult row added for a probe result; retry_attempts
\* and ssl_valid are not given and take their column defaults (models.py:66-67).
CheckResultRow(monitor, result) ==
    [ monitor_id |-> monitor.id,
      is_up |-> result.is_up,
      status_code |-> result.status_code,
      response_ms |-> result.response_ms,
      error |-> result.error,
      retry_attempts |-> default_retry_attempts,
      ssl_valid |-> NoneStr ]

NoResult == [is_up |-> FALSE, status_code |-> NoneInt, response_ms |-> NoneInt, error |-> NoneStr]

\* What callback did with a delivery: the path taken (kind), whether an HTTP probe
\* was made, the breaker state the call met, the probe's result if it returned, and
\* the request of the probe (filled in by process_check).
Outcome(kind, probed, cb, result) ==
    [kind |-> kind, probed |-> probed, cb_before |-> cb, result |-> result,
     request |-> NoRequest, events |-> << >>, notify |-> "n/a",
     audit |-> [error |-> NoneStr, perf_score |-> NoneInt]]

\* What becomes of the POST to /api/v1/internal/broadcast: it is answered ("ok"),
\* it is answered with an error status ("non_2xx"), or the client raises, for a
\* refused connection or a timeout ("raises").
NotifyAnswers == {"ok", "non_2xx", "raises"}

\* Mutant: an exception of the POST leaves the try block it is in.
Notified_unguarded(notify) == notify = "raises"

\* worker.py:70-79, 87-100, 136-149: whether the notification raises into the
\* handler; every exception of the POST is caught where it is made.
Notified(notify) == FALSE
NoOutcome == Outcome("none", FALSE, "n/a", NoResult)

--------------------------------------------------------------------------
\* The answers of the network to a probe that the worker's model draws from.
ProbeAnswers == { HttpResp(200, 120), HttpResp(500, 120), ExcResp("timed out", 5000) }

\* checker.py PerformanceAuditStrategy.check, by its result: a score record
\* (perf_score in tenths) or an error record.
AuditResults == { [error |-> NoneStr, perf_score |-> 950],
                  [error |-> "API Error 500", perf_score |-> NoneInt] }

\* What the database does in one handler: "ok", or the query of the monitor
\* raises ("query_fails"), or the commit raises ("commit_fails").
DbAnswers == {"ok", "query_fails", "commit_fails"}

\* worker.py process_check.
process_check(monitor_id, resp, alert_ok, db, notify) ==
    IF db = "query_fails"
    THEN /\ outcome' = Outcome("query_failed", FALSE, "n/a", NoResult)
         /\ UNCHANGED <<monitors, results, breaker>>
    ELSE IF monitor_id \notin DOMAIN monitors
    THEN /\ outcome' = Outcome("not_found", FALSE, "n/a", NoResult)
         /\ UNCHANGED <<monitors, results, breaker>>
    ELSE LET monitor == monitors[monitor_id]
             cb == CBState(breaker, now)
             rc == resilient_check(breaker, now, monitor, resp, alert_ok)
         IN  /\ breaker' = rc.breaker
             /\ UNCHANGED monitors
             /\ IF rc.call.raised
                THEN /\ outcome' = [ Outcome(IF rc.probed THEN "wrapped_raised" ELSE "rejected",
                                             rc.probed, cb, NoResult)
                                      EXCEPT !.request = IF rc.probed THEN ProbeRequest(monitor)
                                                         ELSE NoRequest ]
                     /\ UNCHANGED results
                ELSE IF db = "ok"
                THEN /\ results' = Append(results, CheckResultRow(monitor, rc.call.value))
                     /\ outcome' = [ Outcome(IF Notified(notify) THEN "notify_raised"
                                              ELSE "persisted", TRUE, cb, rc.call.value)
                                      EXCEPT !.request = ProbeRequest(monitor),
                                             !.events = << "check_finished" >>,
                                             !.notify = notify ]
                ELSE /\ outcome' = [ Outcome("commit_failed", TRUE, cb, rc.call.value)
                                      EXCEPT !.request = ProbeRequest(monitor) ]
                     /\ UNCHANGED results

\* models.py:7-29: the attributes of Monitor that are mapped to columns of the
\* monitors table; the perf_ columns that app.py:86-113 adds to the table are not
\* among them.
MappedColumns ==
    { "id", "name", "url", "interval_seconds", "is_active", "created_at", "last_check_at",
      "last_status", "uptime_percentage", "total_checks", "successful_checks",
      "avg_response_ms", "timeout_seconds", "retry_count" }

\* worker.py:53-64: the row after monitor.perf_score = result["perf_score"] and
\* db.commit(): the session writes the attributes that are mapped columns, an
\* attribute that is not one stays on the Python object and is lost with it.
Flushed(row, audit) ==
    IF "perf_score" \in MappedColumns
    THEN [row EXCEPT !.perf_score = audit.perf_score]
    ELSE row

\* worker.py process_audit.
process_audit(monitor_id, strategy, audit, db, notify) ==
    /\ UNCHANGED <<results, breaker>>
    /\ IF db = "query_fails"
       THEN /\ outcome' = Outcome("query_failed", FALSE, "n/a", NoResult)
            /\ UNCHANGED monitors
       ELSE IF monitor_id \notin DOMAIN monitors
       THEN /\ outcome' = Outcome("not_found", FALSE, "n/a", NoResult)
            /\ UNCHANGED monitors
       ELSE IF audit.error = NoneStr /\ db = "ok"
       THEN /\ monitors' = [monitors EXCEPT ![monitor_id] = Flushed(@, audit)]
            /\ outcome' = IF Notified(notify)
                          THEN [ Outcome("audit_failed", FALSE, "n/a", NoResult)
                                 EXCEPT !.events = << "audit_finished", "audit_failed" >>,
                                        !.notify = notify, !.audit = audit ]
                          ELSE [ Outcome("audit_ok", FALSE, "n/a", NoResult)
                                 EXCEPT !.events = << "audit_finished" >>,
                                        !.notify = notify, !.audit = audit ]
       ELSE /\ outcome' = [ Outcome("audit_failed", FALSE, "n/a", NoResult)
                            EXCEPT !.events = << "audit_failed" >>, !.notify = notify,
                                   !.audit = audit ]
            /\ UNCHANGED monitors

\* Mutant: the consumer is registered with auto_ack.
auto_ack_on == TRUE

\* worker.py:194 basic_consume without auto_ack: deliveries are acknowledged by hand.
auto_ack == FALSE

\* Mutant: the consumer asks for two deliveries at a time.
prefetch_count_two == 1 + 1

\* worker.py:193 basic_qos: how many unacknowledged deliveries the consumer may hold.
prefetch_count == 1

\* The deliveries the worker holds and has not acknowledged.
Unacked == IF pc = "idle" THEN 0 ELSE 1

\* The broker hands the next message to callback while the consumer holds fewer
\* than prefetch_count unacknowledged deliveries; the model stops delivering once
\* the check_results table holds max_rows rows.
Deliver(max_rows) ==
    /\ Unacked < prefetch_count
    /\ queue # << >>
    /\ Len(results) < max_rows
    /\ delivery' = Head(queue)
    /\ queue' = Tail(queue)
    /\ outcome' = NoOutcome
    /\ acks' = IF auto_ack THEN 1 ELSE 0
    /\ pc' = "processing"
    /\ UNCHANGED <<monitors, results, breaker, now, probe_in, probe_out, stats_call, ax, producer, aside>>

\* worker.py callback, lines 160-174: decode, dispatch, and catch every exception.
callback(resp, alert_ok, db, audit, notify) ==
    /\ pc = "processing"
    /\ LET d == Dispatch(delivery)
       IN  IF d.handler = "decode_error"
           THEN /\ outcome' = Outcome("decode_error", FALSE, "n/a", NoResult)
                /\ UNCHANGED <<monitors, results, breaker>>
           ELSE IF d.handler = "none"
           THEN /\ outcome' = Outcome("skipped", FALSE, "n/a", NoResult)
                /\ UNCHANGED <<monitors, results, breaker>>
           ELSE IF d.handler = "process_audit"
           THEN process_audit(d.monitor_id, d.strategy, audit, db, notify)
           ELSE process_check(d.monitor_id, resp, alert_ok, db, notify)
    /\ pc' = "acking"
    /\ UNCHANGED <<queue, delivery, acks, now, probe_in, probe_out, stats_call, ax, producer, aside>>

\* Mutant: a delivery that could not be decoded is rejected back to the queue.
Ack_nack_on_error ==
    /\ pc = "acking"
    /\ IF outcome.kind = "decode_error"
       THEN acks' = acks /\ queue' = Append(queue, delivery)
       ELSE acks' = acks + 1 /\ queue' = queue
    /\ delivery' = NoTask
    /\ pc' = "idle"
    /\ UNCHANGED <<monitors, results, outcome, breaker, now, probe_in, probe_out, stats_call, ax, producer, aside>>

\* worker.py callback, line 176: ch.basic_ack.
Ack ==
    /\ pc = "acking"
    /\ acks' = acks + 1
    /\ delivery' = NoTask
    /\ pc' = "idle"
    /\ UNCHANGED <<monitors, results, queue, outcome, breaker, now, probe_in, probe_out, stats_call, ax, producer, aside>>

\* The worker process dies and is started again: the broker puts a delivery that
\* was not acknowledged back at the head of the queue, and the new process has a
\* new breaker.
Crash ==
    /\ queue' = IF pc # "idle" /\ acks = 0 THEN <<delivery>> \o queue ELSE queue
    /\ delivery' = NoTask
    /\ outcome' = NoOutcome
    /\ acks' = 0
    /\ pc' = "idle"
    /\ breaker' = NewBreaker(now)
    /\ UNCHANGED <<monitors, results, now, probe_in, probe_out, stats_call, ax, producer, aside>>

\* messaging.py publish_check.
publish_check(monitor_id, task_type, strategy) ==
    /\ Len(queue) < MaxQueue
    /\ queue' = Append(queue, PublishedBody(monitor_id, task_type, strategy))
    /\ UNCHANGED <<monitors, results, pc, delivery, outcome, acks, breaker, now, probe_in, probe_out, stats_call, ax, producer, aside>>

\* Another publisher puts a body on the queue that publish_check did not make.
PublishForeign(body) ==
    /\ Len(queue) < MaxQueue
    /\ queue' = Append(queue, body)
    /\ UNCHANGED <<monitors, results, pc, delivery, outcome, acks, breaker, now, probe_in, probe_out, stats_call, ax, producer, aside>>

\* Time passes.
Tick ==
    /\ now + TickStep <= MaxTime
    /\ now' = now + TickStep
    /\ UNCHANGED <<monitors, results, queue, pc, delivery, outcome, acks, breaker, probe_in, probe_out, stats_call, ax, producer, aside>>

NoProbe == ExcResp(NoneStr, NoneInt)

\* No update_stats call yet, no audit under way, no producer run under way.
NoCall == [is_up |-> FALSE, response_ms |-> NoneInt, id |-> NoneInt]
NoAudit == [answers |-> << >>, out |-> << >>]
NoRun == [job |-> "none", todo |-> << >>, enumerated |-> {}, sent |-> << >>, raised |-> {},
          manual |-> << >>]

\* The variables of the other specifications before anything is put in them.
InitAside ==
    /\ wire = << >>
    /\ consumer = << >>
    /\ batch = << >>
    /\ factory = << >>
    /\ api = << >>
    /\ report = << >>
    /\ pool = << >>

\* Everything outside the worker at rest.
InitRest ==
    /\ stats_call = NoCall
    /\ ax = NoAudit
    /\ producer = NoRun
    /\ InitAside

\* The worker before its first delivery, with the tables as created.
InitWorker ==
    /\ monitors = [id \in MonitorIds |-> NewMonitor(id)]
    /\ results = << >>
    /\ queue = << >>
    /\ pc = "idle"
    /\ delivery = NoTask
    /\ outcome = NoOutcome
    /\ acks = 0
    /\ breaker = NewBreaker(0)
    /\ now = 0

Init ==
    /\ InitWorker
    /\ InitRest
    /\ probe_in = NoProbe
    /\ probe_out = << >>

Next ==
    \/ \E id \in MonitorIds \cup {UnknownId}, task_type \in {"check", "audit"} :
          publish_check(id, task_type, "mobile")
    \/ \E body \in ForeignBodies : PublishForeign(body)
    \/ Deliver(MaxResults)
    \/ \E resp \in ProbeAnswers, alert_ok \in BOOLEAN, db \in DbAnswers, audit \in AuditResults :
          callback(resp, alert_ok, db, audit, "ok")
    \/ Ack
    \/ Crash
    \/ Tick

Spec == Init /\ [][Next]_vars

\* The worker on a day without faults of its own surroundings: the database
\* answers, the alert is printed, the process stays up; only the probed site fails.
NextHealthy ==
    \/ publish_check(1, "check", "mobile")
    \/ Deliver(MaxHealthyResults)
    \/ \E resp \in ProbeAnswers : callback(resp, TRUE, "ok", CHOOSE a \in AuditResults : TRUE, "ok")
    \/ Ack

SpecHealthy == Init /\ [][NextHealthy]_vars

--------------------------------------------------------------------------
\* The worker and its notifications: the database may fail and the POST to the
\* API may fail in every way; the process stays up.
NextNotify ==
    \/ \E task_type \in {"check", "audit"} : publish_check(1, task_type, "mobile")
    \/ Deliver(MaxResults)
    \/ \E resp \in ProbeAnswers, db \in DbAnswers, audit \in AuditResults, notify \in NotifyAnswers :
          callback(resp, TRUE, db, audit, notify)
    \/ Ack

SpecNotify == Init /\ [][NextNotify]_vars

--------------------------------------------------------------------------
\* The probe alone: HTTPCheckStrategy.check applied to every answer of the network.
StatusCodes == 100 .. 599
ElapsedMs == {0, 120}
ExcTexts == { "", "timed out", "connection refused", "name resolution failed",
              "certificate verify failed", "unexpected" }
ProbeInputs ==
    { HttpResp(st, ms) : st \in StatusCodes, ms \in ElapsedMs }
        \cup { ExcResp(tx, ms) : tx \in ExcTexts, ms \in ElapsedMs }

InitProbe ==
    /\ InitWorker
    /\ InitRest
    /\ probe_in \in ProbeInputs
    /\ probe_out = << >>

\* await strategy.check(url): the completion of the call is recorded.
check ==
    /\ probe_out = << >>
    /\ probe_out' = << HTTPCheck(probe_in) >>
    /\ UNCHANGED <<monitors, results, queue, pc, delivery, outcome, acks, breaker, now,
                   probe_in, stats_call, ax, producer, aside>>

NextProbe == check

SpecProbe == InitProbe /\ [][NextProbe]_vars

--------------------------------------------------------------------------
\* The statistics of a monitor alone: Monitor.update_stats applied to samples.
MaxChecks == 5
SampleMs == {NoneInt, 100, 200, 203}

\* monitor.update_stats(is_up, response_ms) on a row of the table.
UpdateStats(id, is_up, response_ms) ==
    /\ monitors[id].total_checks < MaxChecks
    /\ monitors' = [monitors EXCEPT ![id] = update_stats(@, is_up, response_ms)]
    /\ stats_call' = [is_up |-> is_up, response_ms |-> response_ms, id |-> id]
    /\ UNCHANGED <<results, queue, pc, delivery, outcome, acks, breaker, now,
                   probe_in, probe_out, ax, producer, aside>>

NextStats ==
    \E id \in MonitorIds, is_up \in BOOLEAN, response_ms \in SampleMs :
        UpdateStats(id, is_up, response_ms)

SpecStats == Init /\ [][NextStats]_vars

--------------------------------------------------------------------------
\* The audit executor alone: PerformanceAuditStrategy.check against every course
\* of answers of the API.
AuditAnswers ==
    { AuditHttp(200, "report"), AuditHttp(200, "malformed"), AuditHttp(429, NoneStr),
      AuditHttp(500, NoneStr), AuditHttp(403, NoneStr), AuditExc("timed out") }

InitAudit ==
    /\ InitWorker
    /\ probe_in = NoProbe
    /\ probe_out = << >>
    /\ stats_call = NoCall
    /\ producer = NoRun
    /\ InitAside
    /\ ax \in [answers : [1 .. max_retries -> AuditAnswers], out : {<< >>}]

\* await perf_strategy.check(url, strategy): what the call did is recorded.
audit_check ==
    /\ ax.answers # << >>
    /\ ax.out = << >>
    /\ ax' = [ax EXCEPT !.out = << AuditCheck(ax.answers) >>]
    /\ UNCHANGED <<monitors, results, queue, pc, delivery, outcome, acks, breaker, now,
                   probe_in, probe_out, stats_call, producer, aside>>

NextAudit == audit_check

SpecAudit == InitAudit /\ [][NextAudit]_vars

--------------------------------------------------------------------------
\* The producer: the two periodic jobs of app.py, the manual audit trigger, and
\* the update of a monitor.  The jobs and the trigger run on one event loop, one at
\* a time; update_monitor runs on a thread of its own, between any two publishes of
\* a job.  producer holds the job under way (job), the monitors its query returned
\* (enumerated), those still to publish for (todo), the ids it put on the queue
\* (sent), the ids whose publish_check raised (raised), and the row the last manual
\* trigger found (manual).
MaxProducerQueue == 3
ProducerIds == {1, 2}
Strategies == {"mobile", "desktop"}

\* What the broker does to one publish_check call: the message is published and the
\* call returns ("ok"); the connection cannot be opened and the call raises
\* ("connect_fails"); the message is published and closing the connection raises
\* ("close_fails").
BrokerAnswers == {"ok", "connect_fails", "close_fails"}

\* messaging.py publish_check under a broker answer: the queue after the call.
QueueAfterPublish(q, monitor_id, task_type, strategy, broker) ==
    IF broker = "connect_fails" THEN q
    ELSE Append(q, PublishedBody(monitor_id, task_type, strategy))

\* Mutant: the jobs take every monitor.
ActiveIds_all(table) == DOMAIN table

\* app.py:382, 396: db.query(Monitor).filter(Monitor.is_active == True).all()
ActiveIds(table) == { id \in DOMAIN table : table[id].is_active }

\* The orders in which a query without ORDER BY can return the rows of S.
Orders(S) ==
    { s \in [1 .. Cardinality(S) -> S] : \A i, j \in 1 .. Cardinality(S) : s[i] = s[j] => i = j }

\* Mutant: the first publish that raises ends the loop.
TodoAfter_abort(todo, broker) == IF broker = "ok" THEN Tail(todo) ELSE << >>

\* app.py:383-387: the for loop goes to the next monitor, also after the except.
TodoAfter(todo, broker) == Tail(todo)

\* app.py _job (job = "check") and _audit_job (job = "audit"), up to the loop: the
\* active monitors are read.
JobStart(job) ==
    /\ producer.job = "none"
    /\ Len(queue) + Cardinality(ActiveIds(monitors)) <= MaxProducerQueue
    /\ \E order \in Orders(ActiveIds(monitors)) :
          producer' = [ job |-> job, todo |-> order, enumerated |-> ActiveIds(monitors),
                        sent |-> << >>, raised |-> {}, manual |-> producer.manual ]
    /\ UNCHANGED <<monitors, results, queue, pc, delivery, outcome, acks, breaker, now,
                   probe_in, probe_out, stats_call, ax, aside>>

\* One turn of the loop: publish_check(m.id, task_type=job) inside try/except.
JobPublish(broker) ==
    /\ producer.job # "none"
    /\ producer.todo # << >>
    /\ LET id == Head(producer.todo)
       IN  /\ queue' = QueueAfterPublish(queue, id, producer.job, "mobile", broker)
           /\ producer' =
                 [ producer EXCEPT
                     !.todo = TodoAfter(producer.todo, broker),
                     !.sent = IF broker = "connect_fails" THEN @ ELSE Append(@, id),
                     !.raised = IF broker = "ok" THEN @ ELSE @ \cup {id} ]
    /\ UNCHANGED <<monitors, results, pc, delivery, outcome, acks, breaker, now,
                   probe_in, probe_out, stats_call, ax, aside>>

\* The loop is over: db.close() and the job returns.
JobEnd ==
    /\ producer.job # "none"
    /\ producer.todo = << >>
    /\ producer' = [NoRun EXCEPT !.manual = producer.manual]
    /\ UNCHANGED <<monitors, results, queue, pc, delivery, outcome, acks, breaker, now,
                   probe_in, probe_out, stats_call, ax, aside>>

\* app.py trigger_monitor_audit: the monitor is looked up by its id alone.
trigger_monitor_audit(monitor_id, strategy, broker) ==
    /\ producer.job = "none"
    /\ Len(queue) < MaxProducerQueue
    /\ IF monitor_id \notin DOMAIN monitors
       THEN /\ producer' = NoRun
            /\ UNCHANGED queue
       ELSE /\ producer' = [NoRun EXCEPT !.manual = << [ id |-> monitor_id,
                                 is_active |-> monitors[monitor_id].is_active ] >>]
            /\ queue' = QueueAfterPublish(queue, monitor_id, "audit", strategy, broker)
    /\ UNCHANGED <<monitors, results, pc, delivery, outcome, acks, breaker, now,
                   probe_in, probe_out, stats_call, ax, aside>>

\* app.py update_monitor, for the column the jobs read.
update_monitor(monitor_id, is_active) ==
    /\ monitor_id \in DOMAIN monitors
    /\ monitors' = [monitors EXCEPT ![monitor_id].is_active = is_active]
    /\ UNCHANGED <<results, queue, pc, delivery, outcome, acks, breaker, now,
                   probe_in, probe_out, stats_call, ax, producer, aside>>

InitProducer ==
    /\ monitors = [id \in ProducerIds |-> NewMonitor(id)]
    /\ results = << >>
    /\ queue = << >>
    /\ pc = "idle"
    /\ delivery = NoTask
    /\ outcome = NoOutcome
    /\ acks = 0
    /\ breaker = NewBreaker(0)
    /\ now = 0
    /\ InitRest
    /\ probe_in = NoProbe
    /\ probe_out = << >>

NextProducer ==
    \/ \E job \in {"check", "audit"} : JobStart(job)
    \/ \E broker \in BrokerAnswers : JobPublish(broker)
    \/ JobEnd
    \/ \E id \in ProducerIds \cup {1 + Cardinality(ProducerIds)}, strategy \in Strategies,
          broker \in BrokerAnswers : trigger_monitor_audit(id, strategy, broker)
    \/ \E id \in ProducerIds, is_active \in BOOLEAN : update_monitor(id, is_active)

SpecProducer == InitProducer /\ [][NextProducer]_vars

--------------------------------------------------------------------------
\* The wire format alone: a call of publish_check, or a message of another
\* publisher with keys left out, and what callback makes of the message.
WireIds == {0, 1, 2, 3, 40}
WireArgs ==
    [ monitor_id : WireIds,
      task_type : {"check", "audit", AbsentStr},
      strategy : {"mobile", "desktop", "", AbsentStr} ]

InitWire ==
    /\ InitWorker
    /\ probe_in = NoProbe
    /\ probe_out = << >>
    /\ stats_call = NoCall
    /\ ax = NoAudit
    /\ producer = NoRun
    /\ consumer = << >> /\ batch = << >> /\ factory = << >> /\ api = << >>
    /\ report = << >> /\ pool = << >>
    /\ wire \in [args : WireArgs, via : {"none"}, body : {<< >>}, got : {<< >>}]

\* publish_check(monitor_id, task_type, strategy), arguments left out included.
WirePublish ==
    /\ wire.body = << >>
    /\ wire' = [wire EXCEPT !.via = "publish_check",
                            !.body = << PublishedBody(wire.args.monitor_id, wire.args.task_type,
                                                      wire.args.strategy) >>]
    /\ UNCHANGED <<monitors, results, queue, pc, delivery, outcome, acks, breaker, now,
                   probe_in, probe_out, stats_call, ax, producer,
                   consumer, batch, factory, api, report, pool>>

\* Another publisher sends the object with the keys it has.
WireForeign ==
    /\ wire.body = << >>
    /\ wire' = [wire EXCEPT !.via = "foreign",
                            !.body = << JsonObject(wire.args.monitor_id, wire.args.task_type,
                                                   wire.args.strategy) >>]
    /\ UNCHANGED <<monitors, results, queue, pc, delivery, outcome, acks, breaker, now,
                   probe_in, probe_out, stats_call, ax, producer,
                   consumer, batch, factory, api, report, pool>>

\* callback decodes the body and chooses the handler.
WireCallback ==
    /\ wire.body # << >>
    /\ wire.got = << >>
    /\ wire' = [wire EXCEPT !.got = << Dispatch(wire.body[1]) >>]
    /\ UNCHANGED <<monitors, results, queue, pc, delivery, outcome, acks, breaker, now,
                   probe_in, probe_out, stats_call, ax, producer,
                   consumer, batch, factory, api, report, pool>>

NextWire == WirePublish \/ WireForeign \/ WireCallback

SpecWire == InitWire /\ [][NextWire]_vars

--------------------------------------------------------------------------
\* The record PerformanceAuditStrategy.check makes of a 200 response. Category
\* scores are in ten-thousandths (9500 is 0.95), the scores of sub-audits in
\* hundredths, the stored category scores in tenths of a point (950 is 95.0).
AbsentInt == -2

\* The largest number of sub-audits in a payload of the model.
MaxAudits == 12

\* checker.py:100: the length perf_details is cut to.
details_limit == 10

\* checker.py:82: a sub-audit fails below this score (0.9).
failing_below == 90

\* checker.py:92-95 round(score, 1) of a score in [0, 100]: the nearest tenth. The
\* scores of the model lie on no half of a tenth, where the binary fraction decides.
RoundTenths(s) == (s + 5) \div 10

\* checker.py:69-72 cats.get(name, {}).get("score", 0) * 100, rounded at 92-95.
CategoryScore(cats, name) ==
    RoundTenths(IF cats[name] = AbsentInt THEN 0 ELSE cats[name])

\* checker.py:81-88: the sub-audits with a score below 0.9, in the order of the
\* payload, each cut down to title, description and score.
RECURSIVE FailingAudits(_)
FailingAudits(audits) ==
    IF audits = << >> THEN << >>
    ELSE LET a == Head(audits)
         IN  (IF a.score # NoneInt /\ a.score < failing_below
              THEN << [title |-> a.title, description |-> a.description, score |-> a.score] >>
              ELSE << >>) \o FailingAudits(Tail(audits))

\* checker.py:100 failing_audits[:10].
FirstOf(list, n) == SubSeq(list, 1, IF Len(list) < n THEN Len(list) ELSE n)

\* checker.py:60-104: the record returned for a 200 response.
ParseReport(payload) ==
    [ error |-> NoneStr,
      perf_score |-> CategoryScore(payload.categories, "performance"),
      perf_seo |-> CategoryScore(payload.categories, "seo"),
      perf_accessible |-> CategoryScore(payload.categories, "accessibility"),
      perf_best_practices |-> CategoryScore(payload.categories, "best-practices"),
      perf_details |-> FirstOf(FailingAudits(payload.audits), details_limit) ]

\* One sub-audit of a payload, named after its place in it.
SubAudit(i, score) ==
    [id |-> "audit-" \o ToString(i), title |-> "title " \o ToString(i),
     description |-> "description " \o ToString(i), score |-> score, numericValue |-> i]

\* Category scores: the ends of the range, the scores of the test, scores that
\* round down and up, and a category the payload does not have.
CategoryScores == {0, 8544, 8546, 9500, 10000, AbsentInt}
TestCategories ==
    [name \in {"performance", "seo", "accessibility", "best-practices"} |->
        CASE name = "performance" -> 9500 [] name = "seo" -> 9000
          [] name = "accessibility" -> 10000 [] OTHER -> 8500]

\* Lists of sub-audits: all score 0.5 but one, which has no score, a very low
\* one, 0.9 or a higher one.
AuditLists ==
    { [i \in 1 .. n |-> SubAudit(i, IF i = odd THEN score ELSE 50)] :
        n \in 0 .. MaxAudits, odd \in 1 .. MaxAudits, score \in {NoneInt, 10, 90, 95} }

ReportPayloads ==
    { [categories |-> [TestCategories EXCEPT ![name] = s], audits |-> << >>] :
        name \in DOMAIN TestCategories, s \in CategoryScores }
    \cup { [categories |-> TestCategories, audits |-> audits] : audits \in AuditLists }

InitReport ==
    /\ InitWorker
    /\ probe_in = NoProbe
    /\ probe_out = << >>
    /\ stats_call = NoCall
    /\ ax = NoAudit
    /\ producer = NoRun
    /\ wire = << >> /\ consumer = << >> /\ batch = << >> /\ factory = << >> /\ api = << >> /\ pool = << >>
    /\ report \in [payload : ReportPayloads, out : {<< >>}]

\* The 200 branch of PerformanceAuditStrategy.check is run on the payload.
parse_report ==
    /\ report.out = << >>
    /\ report' = [report EXCEPT !.out = << ParseReport(report.payload) >>]
    /\ UNCHANGED <<monitors, results, queue, pc, delivery, outcome, acks, breaker, now,
                   probe_in, probe_out, stats_call, ax, producer,
                   wire, consumer, batch, factory, api, pool>>

NextReport == parse_report

SpecReport == InitReport /\ [][NextReport]_vars

--------------------------------------------------------------------------
\* worker.py main: the loop that connects to the broker and consumes.

\* The longest record of connections and failures the model keeps.
MaxMainLog == 12

\* worker.py:183 retries = 5.
main_retries == 5

\* worker.py:207 time.sleep(5).
reconnect_pause == 5

\* Mutant: a failure does not use up a retry.
RetriesAfter_same(retries) == retries

\* worker.py:202 retries -= 1.
RetriesAfter(retries) == retries - 1

\* worker.py:199-210, the except branch: one retry is used up; with retries left
\* the loop sleeps and goes round, without any the process exits with status 1.
MainFailed(c, what) ==
    LET left == RetriesAfter(c.retries)
    IN  [c EXCEPT !.retries = left,
                  !.log = Append(@, what),
                  !.phase = IF left > 0 THEN "sleeping" ELSE "exited",
                  !.exit = IF left > 0 THEN @ ELSE 1]

InitMain ==
    /\ InitWorker
    /\ probe_in = NoProbe
    /\ probe_out = << >>
    /\ stats_call = NoCall
    /\ ax = NoAudit
    /\ producer = NoRun
    /\ wire = << >> /\ batch = << >> /\ factory = << >> /\ api = << >> /\ report = << >> /\ pool = << >>
    /\ consumer = [phase |-> "connecting", retries |-> main_retries, log |-> << >>,
                   slept |-> << >>, exit |-> NoneInt]

\* worker.py:184-194: the loop is entered while retries > 0; connection, channel,
\* queue_declare, basic_qos and basic_consume succeed together or one of them raises.
main_connect(answer) ==
    /\ consumer.phase = "connecting"
    /\ consumer.retries > 0
    /\ Len(consumer.log) < MaxMainLog
    /\ consumer' = IF answer = "ok"
                   THEN [consumer EXCEPT !.phase = "consuming", !.log = Append(@, "connected")]
                   ELSE MainFailed(consumer, "connect_failed")
    /\ UNCHANGED <<monitors, results, queue, pc, delivery, outcome, acks, breaker, now,
                   probe_in, probe_out, stats_call, ax, producer,
                   wire, batch, factory, api, report, pool>>

\* worker.py:197-198: start_consuming raises (the connection is lost) or returns
\* (no consumer is left), and then the loop is left and main returns.
main_consuming_ends(how) ==
    /\ consumer.phase = "consuming"
    /\ consumer' = IF how = "returns"
                   THEN [consumer EXCEPT !.phase = "returned", !.exit = 0,
                                         !.log = Append(@, "returned")]
                   ELSE MainFailed(consumer, "consume_failed")
    /\ UNCHANGED <<monitors, results, queue, pc, delivery, outcome, acks, breaker, now,
                   probe_in, probe_out, stats_call, ax, producer,
                   wire, batch, factory, api, report, pool>>

\* worker.py:207 time.sleep(5), then the next round of the loop.
main_sleep ==
    /\ consumer.phase = "sleeping"
    /\ consumer' = [consumer EXCEPT !.phase = "connecting",
                                    !.slept = Append(@, reconnect_pause)]
    /\ UNCHANGED <<monitors, results, queue, pc, delivery, outcome, acks, breaker, now,
                   probe_in, probe_out, stats_call, ax, producer,
                   wire, batch, factory, api, report, pool>>

NextMain ==
    \/ \E answer \in {"ok", "fails"} : main_connect(answer)
    \/ \E how \in {"raises", "returns"} : main_consuming_ends(how)
    \/ main_sleep

SpecMain == InitMain /\ [][NextMain]_vars

--------------------------------------------------------------------------
\* cli.py run_once_cmd: one batch of probes.  run_checks, which cli.py:7 imports
\* from checker, is modelled after section 4.1 and section 5 of the specification:
\* one probe per active monitor, gathered as independent asynchronous operations;
\* an exception that leaves a probe leaves the gathering, and its caller gets no
\* results.
BatchIds == {1, 2, 3}

InitBatch ==
    /\ monitors \in { [id \in BatchIds |-> [NewMonitor(id) EXCEPT !.is_active = active[id]]] :
                        active \in [BatchIds -> BOOLEAN] }
    /\ results = << >>
    /\ queue = << >>
    /\ pc = "idle"
    /\ delivery = NoTask
    /\ outcome = NoOutcome
    /\ acks = 0
    /\ breaker = NewBreaker(0)
    /\ now = 0
    /\ probe_in = NoProbe
    /\ probe_out = << >>
    /\ stats_call = NoCall
    /\ ax = NoAudit
    /\ producer = NoRun
    /\ wire = << >> /\ consumer = << >> /\ factory = << >> /\ api = << >> /\ report = << >> /\ pool = << >>
    /\ batch \in [phase : {"idle"}, answers : [BatchIds -> ProbeAnswers], todo : {{}},
                  finished : {{}}, records : {[id \in BatchIds |-> NoResult]},
                  raised : {FALSE}, returned : {NoneInt}]

\* cli.py:31-34: run_once_cmd calls run_checks, which starts a probe for each
\* active monitor.
run_checks_start ==
    /\ batch.phase = "idle"
    /\ batch' = [batch EXCEPT !.phase = "running", !.todo = ActiveIds(monitors)]
    /\ UNCHANGED <<monitors, results, queue, pc, delivery, outcome, acks, breaker, now,
                   probe_in, probe_out, stats_call, ax, producer,
                   wire, consumer, factory, api, report, pool>>

\* One of the probes that are under way completes, in any order: checker.py
\* run_check_on_monitor for its monitor, with the answer of its own target.
probe_completes(id) ==
    /\ batch.phase = "running"
    /\ id \in batch.todo
    /\ LET r == run_check_on_monitor(monitors[id], batch.answers[id], TRUE)
       IN  batch' = IF r.raised
                    THEN [batch EXCEPT !.todo = @ \ {id}, !.raised = TRUE]
                    ELSE [batch EXCEPT !.todo = @ \ {id},
                                       !.finished = @ \cup {id},
                                       !.records[id] = r.value]
    /\ UNCHANGED <<monitors, results, queue, pc, delivery, outcome, acks, breaker, now,
                   probe_in, probe_out, stats_call, ax, producer,
                   wire, consumer, factory, api, report, pool>>

\* The gathering ends: run_checks returns the number of monitors checked
\* (cli.py:34-35), or the exception of a probe reaches run_once_cmd.
run_checks_end ==
    /\ batch.phase = "running"
    /\ batch.todo = {}
    /\ batch' = IF batch.raised
                THEN [batch EXCEPT !.phase = "failed", !.finished = {},
                                   !.records = [id \in BatchIds |-> NoResult]]
                ELSE [batch EXCEPT !.phase = "done", !.returned = Cardinality(batch.finished)]
    /\ UNCHANGED <<monitors, results, queue, pc, delivery, outcome, acks, breaker, now,
                   probe_in, probe_out, stats_call, ax, producer,
                   wire, consumer, factory, api, report, pool>>

NextBatch ==
    \/ run_checks_start
    \/ \E id \in BatchIds : probe_completes(id)
    \/ run_checks_end

SpecBatch == InitBatch /\ [][NextBatch]_vars

--------------------------------------------------------------------------
\* checker.py CheckStrategyFactory.get_strategy.

\* Mutant: a key that is not known gives the HTTP strategy.
GetStrategy_fallback(strategy_type) ==
    LET key == IF strategy_type = AbsentStr THEN "http" ELSE strategy_type
    IN  IF key = "performance" THEN Returned("PerformanceAuditStrategy")
        ELSE Returned("HTTPCheckStrategy")

\* checker.py:130-136: the class of the strategy returned, or the ValueError
\* raised; a call without argument has the default "http".
GetStrategy(strategy_type) ==
    LET key == IF strategy_type = AbsentStr THEN "http" ELSE strategy_type
    IN  IF key = "http" THEN Returned("HTTPCheckStrategy")
        ELSE IF key = "performance" THEN Returned("PerformanceAuditStrategy")
        ELSE Raised("ValueError: Unknown strategy type: " \o key)

\* The keys the factory is asked for: the two it knows, and others near and far.
KeyStems == { "http", "HTTP", "Http", "performance", "Performance", "perf", "audit",
              "ping", "unknown", "mobile", "tcp", "" }
KeySuffixes == { "", " ", "s", "_check", "2" }
FactoryKeys == { stem \o suffix : stem \in KeyStems, suffix \in KeySuffixes } \cup {AbsentStr}

InitFactory ==
    /\ InitWorker
    /\ probe_in = NoProbe
    /\ probe_out = << >>
    /\ stats_call = NoCall
    /\ ax = NoAudit
    /\ producer = NoRun
    /\ wire = << >> /\ consumer = << >> /\ batch = << >> /\ api = << >> /\ report = << >> /\ pool = << >>
    /\ factory \in [strategy_type : FactoryKeys, out : {<< >>}]

get_strategy ==
    /\ factory.out = << >>
    /\ factory' = [factory EXCEPT !.out = << GetStrategy(factory.strategy_type) >>]
    /\ UNCHANGED <<monitors, results, queue, pc, delivery, outcome, acks, breaker, now,
                   probe_in, probe_out, stats_call, ax, producer,
                   wire, consumer, batch, api, report, pool>>

NextFactory == get_strategy

SpecFactory == InitFactory /\ [][NextFactory]_vars

--------------------------------------------------------------------------
\* The v1 API: auth.py and v1_router.py.

\* auth.py:10, 12.
SECRET_KEY == "super-secret-key-change-me"
ACCESS_TOKEN_EXPIRE_MINUTES == 30

\* The time of the requests of the model, in seconds (datetime.utcnow()).
ApiNow == 3600

\* passlib's hash of a password and its verification, the salt left aside.
PasswordHash(password) == "bcrypt$" \o password
verify_password(plain_password, hashed_password) == PasswordHash(plain_password) = hashed_password

\* auth.py:29-32.
USERS_DB ==
    [ username \in {"admin", "viewer"} |->
        [ username |-> username,
          password_hash |-> PasswordHash(IF username = "admin" THEN "admin123" ELSE "viewer123"),
          role |-> username ] ]

\* A bearer token: the claims of the JWT and the key it is signed with; NoToken is
\* a request without Authorization header.
Token(sub, role, exp, key) == [sub |-> sub, role |-> role, exp |-> exp, key |-> key]
NoToken == Token(NoneStr, NoneStr, NoneInt, NoneStr)

\* auth.py:38-46 with the expires_delta of v1_router.py:62-65.
create_access_token(data, expires_minutes, t) ==
    Token(data.sub, data.role, t + expires_minutes * 60, SECRET_KEY)

\* The answer of a handler: the status, and the token of a login.
Response(status_code, token) == [status_code |-> status_code, access_token |-> token]

\* auth.py:48-71 behind OAuth2PasswordBearer: the User of the token, or 401 for a
\* missing token, a wrong signature, an expired token, a token without sub and a
\* sub that is not in USERS_DB; the role is the one of USERS_DB.
get_current_user(token, t) ==
    IF token = NoToken THEN Raised(401)
    ELSE IF token.key # SECRET_KEY \/ token.exp < t THEN Raised(401)
    ELSE IF token.sub = NoneStr THEN Raised(401)
    ELSE IF token.sub \notin DOMAIN USERS_DB THEN Raised(401)
    ELSE Returned([username |-> USERS_DB[token.sub].username, role |-> USERS_DB[token.sub].role])

\* Mutant: every authenticated user passes.
check_role_any(required_role, token, t) == get_current_user(token, t)

\* auth.py:73-81.
check_role(required_role, token, t) ==
    LET current_user == get_current_user(token, t)
    IN  IF current_user.raised THEN current_user
        ELSE IF current_user.value.role # required_role /\ current_user.value.role # "admin"
             THEN Raised(403)
             ELSE current_user

ApiIds == {1, 2}
AbsentId == 3

\* The tokens a client may present that no login of the model has issued: none, an
\* admin token signed with another key, an admin token that has expired, and tokens
\* under the server's key without sub, for an unknown user, and for the viewer with
\* the role claim admin.  An admin token in force comes from a login only.
OtherTokens ==
    { NoToken,
      Token("admin", "admin", ApiNow + 1800, "another-key"),
      Token("admin", "admin", ApiNow - 1, SECRET_KEY),
      Token(NoneStr, "admin", ApiNow + 1800, SECRET_KEY),
      Token("ghost", "admin", ApiNow + 1800, SECRET_KEY),
      Token("viewer", "admin", ApiNow + 1800, SECRET_KEY) }

InitApi ==
    /\ monitors = [id \in ApiIds |-> NewMonitor(id)]
    /\ results = << >>
    /\ queue = << >>
    /\ pc = "idle"
    /\ delivery = NoTask
    /\ outcome = NoOutcome
    /\ acks = 0
    /\ breaker = NewBreaker(0)
    /\ now = ApiNow
    /\ probe_in = NoProbe
    /\ probe_out = << >>
    /\ stats_call = NoCall
    /\ ax = NoAudit
    /\ producer = NoRun
    /\ wire = << >> /\ consumer = << >> /\ batch = << >> /\ factory = << >> /\ report = << >> /\ pool = << >>
    /\ api = [issued |-> {}, request |-> "none", token |-> NoToken, response |-> Response(NoneInt, NoToken)]

\* v1_router.py:54-67 POST /api/v1/auth/login.
login_for_access_token(username, password) ==
    /\ LET known == username \in DOMAIN USERS_DB
           ok == known /\ verify_password(password, USERS_DB[username].password_hash)
           token == create_access_token([sub |-> username, role |-> USERS_DB[username].role],
                                        ACCESS_TOKEN_EXPIRE_MINUTES, now)
       IN  api' = IF ok
                  THEN [issued |-> api.issued \cup {token}, request |-> "login",
                        token |-> NoToken, response |-> Response(200, token)]
                  ELSE [api EXCEPT !.request = "login", !.token = NoToken,
                                   !.response = Response(401, NoToken)]
    /\ UNCHANGED <<monitors, results, queue, pc, delivery, outcome, acks, breaker, now,
                   probe_in, probe_out, stats_call, ax, producer,
                   wire, consumer, batch, factory, report, pool>>

\* v1_router.py:70-72 GET /api/v1/monitors.
list_monitors(token) ==
    /\ LET user == get_current_user(token, now)
       IN  api' = [api EXCEPT !.request = "list", !.token = token,
                              !.response = Response(IF user.raised THEN user.value ELSE 200, NoToken)]
    /\ UNCHANGED <<monitors, results, queue, pc, delivery, outcome, acks, breaker, now,
                   probe_in, probe_out, stats_call, ax, producer,
                   wire, consumer, batch, factory, report, pool>>

\* v1_router.py:74-96 POST /api/v1/monitors: the role, then the payload, then
\* Monitor(..., strategy=payload.strategy), whose constructor raises TypeError for
\* a keyword that is no mapped attribute (status 500); with the row added, the
\* check and the audit of the new monitor are published.
create_monitor(token, payload_valid) ==
    LET user == check_role("admin", token, now)
        kwargs == {"name", "url", "interval_seconds", "is_active", "strategy"}
        new_id == 1 + Cardinality(ApiIds)
        status_code == IF user.raised THEN user.value
                       ELSE IF ~payload_valid THEN 422
                       ELSE IF ~(kwargs \subseteq MappedColumns) THEN 500
                       ELSE 201
    IN  /\ api' = [api EXCEPT !.request = "create", !.token = token,
                              !.response = Response(status_code, NoToken)]
        /\ IF status_code = 201
           THEN /\ monitors' = [id \in DOMAIN monitors \cup {new_id} |->
                                   IF id \in DOMAIN monitors THEN monitors[id] ELSE NewMonitor(id)]
                /\ queue' = queue \o << PublishedBody(new_id, "check", AbsentStr),
                                        PublishedBody(new_id, "audit", "mobile") >>
           ELSE UNCHANGED <<monitors, queue>>
        /\ UNCHANGED <<results, pc, delivery, outcome, acks, breaker, now,
                       probe_in, probe_out, stats_call, ax, producer,
                       wire, consumer, batch, factory, report, pool>>

\* v1_router.py:98-109 DELETE /api/v1/monitors/{monitor_id}; the rows of the
\* monitor's checks go with it (models.py:29 cascade).
delete_monitor(token, monitor_id) ==
    LET user == check_role("admin", token, now)
        status_code == IF user.raised THEN user.value
                       ELSE IF monitor_id \notin DOMAIN monitors THEN 404
                       ELSE 200
    IN  /\ api' = [api EXCEPT !.request = "delete", !.token = token,
                              !.response = Response(status_code, NoToken)]
        /\ IF status_code = 200
           THEN /\ monitors' = [id \in DOMAIN monitors \ {monitor_id} |-> monitors[id]]
                /\ results' = SelectSeq(results, LAMBDA row : row.monitor_id # monitor_id)
           ELSE UNCHANGED <<monitors, results>>
        /\ UNCHANGED <<queue, pc, delivery, outcome, acks, breaker, now,
                       probe_in, probe_out, stats_call, ax, producer,
                       wire, consumer, batch, factory, report, pool>>

NextApi ==
    \/ \E username \in {"admin", "viewer", "ghost"}, password \in {"admin123", "viewer123", "wrong"} :
          login_for_access_token(username, password)
    \/ \E token \in api.issued \cup OtherTokens : list_monitors(token)
    \/ \E token \in api.issued \cup OtherTokens, payload_valid \in BOOLEAN :
          create_monitor(token, payload_valid)
    \/ \E token \in api.issued \cup OtherTokens, monitor_id \in ApiIds \cup {AbsentId} :
          delete_monitor(token, monitor_id)

SpecApi == InitApi /\ [][NextApi]_vars

--------------------------------------------------------------------------
\* A running worker draining its queue.  The durable queue holds the messages
\* published while no worker consumed; the process stays up.  The broker delivers
\* while the consumer holds no unacknowledged delivery, and a delivery is handled
\* to its end: every await of the handlers is under a timeout (checker.py:21, 52;
\* worker.py:72, 89, 138) and the audit's loop is bounded (checker.py:49).

\* The longest queue the worker starts with.
MaxBacklog == 3

BacklogBodies ==
    { PublishedBody(1, "check", AbsentStr), PublishedBody(1, "audit", "mobile"),
      PublishedBody(UnknownId, "check", AbsentStr), RawBody("not_json") }

InitProgress ==
    /\ monitors = [id \in MonitorIds |-> NewMonitor(id)]
    /\ results = << >>
    /\ queue \in UNION { [1 .. n -> BacklogBodies] : n \in 0 .. MaxBacklog }
    /\ pc = "idle"
    /\ delivery = NoTask
    /\ outcome = NoOutcome
    /\ acks = 0
    /\ breaker = NewBreaker(0)
    /\ now = 0
    /\ InitRest
    /\ probe_in = NoProbe
    /\ probe_out = << >>

HandleDelivery ==
    \E resp \in ProbeAnswers, db \in DbAnswers, audit \in AuditResults :
        callback(resp, TRUE, db, audit, "ok")

NextProgress ==
    \/ Deliver(MaxBacklog + 1)
    \/ HandleDelivery
    \/ Ack

SpecProgress ==
    /\ InitProgress /\ [][NextProgress]_vars
    /\ WF_vars(Deliver(MaxBacklog + 1))
    /\ WF_vars(HandleDelivery)
    /\ WF_vars(Ack)

--------------------------------------------------------------------------
\* Several worker processes on one queue and one database, with the API's delete
\* and the retention sweep.  A process is at one place of callback at a time:
\* "received" (before the query of the monitor), "probing" (before the await of
\* resilient_check), "auditing" (before the await of the audit), "committing"
\* (before db.add and db.commit), "acking" (before basic_ack); between two places
\* the other processes and the API run.  Each process has the breaker of its own
\* import of worker.py.
WorkerIds == {1, 2}
PoolMonitorIds == {1, 2}

\* The most rows of check_results with which the broker still delivers.
MaxPoolRows == 1

\* db.py:23 PRAGMA foreign_keys=ON, on every connection of the engine.
foreign_keys_off == FALSE
foreign_keys == TRUE

\* db.py:46 days: int = 30.
retention_days == 30
SecondsPerDay == 24 * 60 * 60

\* Mutant: the row takes the place of the last row of its monitor.
Inserted_replace(table, row, t) ==
    LET new == row @@ [checked_at |-> t]
        same == { i \in DOMAIN table : table[i].monitor_id = row.monitor_id }
    IN  IF same = {} THEN Append(table, new)
        ELSE [table EXCEPT ![CHOOSE i \in same : \A j \in same : j <= i] = new]

\* Mutant: checked_at is the time of the import of models.py.
Inserted_import_time(table, row, t) == Append(table, row @@ [checked_at |-> 0])

\* worker.py:119-128 db.add(CheckResult(...)); db.commit(): the INSERT gives the row
\* the next id and, by the server default of models.py:59, the time of the insert.
Inserted(table, row, t) == Append(table, row @@ [checked_at |-> t])

\* Mutant: the delete of a monitor empties check_results.
Cascade_all(table, monitor_id) == << >>

\* Mutant: the delete of a monitor leaves its rows.
Cascade_none(table, monitor_id) == table

\* models.py:29 cascade="all, delete-orphan" and models.py:57 ondelete="CASCADE":
\* check_results after the delete of a monitor.
Cascade(table, monitor_id) == SelectSeq(table, LAMBDA row : row.monitor_id # monitor_id)

\* Mutant: the breaker starts afresh with every task.
IdleWorker_per_task(b) ==
    [pc |-> "idle", delivery |-> NoTask, behind |-> {}, monitor |-> NewMonitor(NoneInt),
     strategy |-> NoneStr, outcome |-> NoOutcome, breaker |-> NewBreaker(0)]

\* A process that holds no delivery: nothing of the last task is kept but the
\* state of the breaker, which worker.py:30 makes once, at the import.
IdleWorker(b) ==
    [pc |-> "idle", delivery |-> NoTask, behind |-> {}, monitor |-> NewMonitor(NoneInt),
     strategy |-> NoneStr, outcome |-> NoOutcome, breaker |-> b]

InitPool ==
    /\ monitors = [id \in PoolMonitorIds |-> NewMonitor(id)]
    /\ results = << >>
    /\ queue = << >>
    /\ pc = "idle"
    /\ delivery = NoTask
    /\ outcome = NoOutcome
    /\ acks = 0
    /\ breaker = NewBreaker(0)
    /\ now = 0
    /\ probe_in = NoProbe
    /\ probe_out = << >>
    /\ stats_call = NoCall
    /\ ax = NoAudit
    /\ producer = NoRun
    /\ wire = << >> /\ consumer = << >> /\ batch = << >> /\ factory = << >> /\ api = << >>
    /\ report = << >>
    /\ pool = [w \in WorkerIds |-> IdleWorker(NewBreaker(0))]

\* The broker hands the head of the queue to a process that holds no delivery
\* (worker.py:193); behind: the processes that hold an earlier message then.
pool_deliver(w) ==
    /\ pool[w].pc = "idle"
    /\ queue # << >>
    /\ Len(results) < MaxPoolRows
    /\ pool' = [pool EXCEPT ![w] = [@ EXCEPT !.pc = "received", !.delivery = Head(queue),
                                              !.behind = { v \in WorkerIds : pool[v].pc # "idle" }]]
    /\ queue' = Tail(queue)
    /\ UNCHANGED <<monitors, results, pc, delivery, outcome, acks, breaker, now,
                   probe_in, probe_out, stats_call, ax, producer,
                   wire, consumer, batch, factory, api, report>>

\* Mutant: the handler goes on without the row.
MonitorMissing_never(monitor) == FALSE

\* worker.py:109 (42) if not monitor: .first() gave None.
MonitorMissing(monitor) == monitor.id = NoneInt

\* worker.py:160-172 and 108-111 (41-44): the body is decoded and dispatched, the
\* handler reads the row of the monitor and returns when there is none.
pool_query(w, db) ==
    /\ pool[w].pc = "received"
    /\ LET d == Dispatch(pool[w].delivery)
           monitor == IF d.monitor_id \in DOMAIN monitors THEN monitors[d.monitor_id]
                      ELSE NewMonitor(NoneInt)
           end(kind) == [pool EXCEPT ![w] = [@ EXCEPT !.pc = "acking",
                                   !.outcome = Outcome(kind, FALSE, "n/a", NoResult)]]
       IN  pool' = IF d.handler = "decode_error" THEN end("decode_error")
                   ELSE IF d.handler = "none" THEN end("skipped")
                   ELSE IF db = "query_fails" THEN end("query_failed")
                   ELSE IF MonitorMissing(monitor) THEN end("not_found")
                   ELSE [pool EXCEPT ![w] = [@ EXCEPT
                             !.pc = IF d.handler = "process_audit" THEN "auditing" ELSE "probing",
                             !.monitor = monitor,
                             !.strategy = d.strategy]]
    /\ UNCHANGED <<monitors, results, queue, pc, delivery, outcome, acks, breaker, now,
                   probe_in, probe_out, stats_call, ax, producer,
                   wire, consumer, batch, factory, api, report>>

\* worker.py:116 result = await resilient_check(monitor), under the breaker of
\* the process.
pool_probe(w, resp, alert_ok) ==
    /\ pool[w].pc = "probing"
    /\ LET cb == CBState(pool[w].breaker, now)
           rc == resilient_check(pool[w].breaker, now, pool[w].monitor, resp, alert_ok)
       IN  pool' = [pool EXCEPT ![w] = [@ EXCEPT
                       !.breaker = rc.breaker,
                       !.pc = IF rc.call.raised THEN "acking" ELSE "committing",
                       !.outcome = IF rc.call.raised
                                   THEN Outcome(IF rc.probed THEN "wrapped_raised" ELSE "rejected",
                                                rc.probed, cb, NoResult)
                                   ELSE Outcome("probed", TRUE, cb, rc.call.value)]]
    /\ UNCHANGED <<monitors, results, queue, pc, delivery, outcome, acks, breaker, now,
                   probe_in, probe_out, stats_call, ax, producer,
                   wire, consumer, batch, factory, api, report>>

\* worker.py:119-149: the row is added and committed, then check_finished is sent;
\* the commit raises when the database fails and, with foreign keys enforced, when
\* the row of the monitor is gone.
pool_commit(w, db) ==
    /\ pool[w].pc = "committing"
    /\ LET me == pool[w]
           committed == db = "ok" /\ (foreign_keys => me.monitor.id \in DOMAIN monitors)
       IN  /\ results' = IF committed
                         THEN Inserted(results, CheckResultRow(me.monitor, me.outcome.result), now)
                         ELSE results
           /\ pool' = [pool EXCEPT ![w] = [@ EXCEPT
                          !.pc = "acking",
                          !.outcome = IF committed
                                      THEN [me.outcome EXCEPT !.kind = "persisted",
                                                              !.events = << "check_finished" >>]
                                      ELSE [me.outcome EXCEPT !.kind = "commit_failed"]]]
    /\ UNCHANGED <<monitors, queue, pc, delivery, outcome, acks, breaker, now,
                   probe_in, probe_out, stats_call, ax, producer,
                   wire, consumer, batch, factory, api, report>>

\* checker.py:31-42: the URL and the strategy parameter of the request that
\* PerformanceAuditStrategy.check sends for check(url, strategy).
AuditRequest(url, strategy) ==
    [ url |-> IF Len(url) >= 4 /\ SubSeq(url, 1, 4) = "http" THEN url ELSE "https://" \o url,
      strategy |-> strategy ]

\* worker.py:49-100: the audit is awaited without any breaker, its result is set
\* on the monitor and committed, and audit_finished or audit_failed is sent.
pool_audit(w, audit, db) ==
    /\ pool[w].pc = "auditing"
    /\ LET me == pool[w]
           id == me.monitor.id
           ok == audit.error = NoneStr /\ db = "ok"
       IN  /\ monitors' = IF ok /\ id \in DOMAIN monitors
                          THEN [monitors EXCEPT ![id] = Flushed(@, audit)]
                          ELSE monitors
           /\ pool' = [pool EXCEPT ![w] = [@ EXCEPT
                          !.pc = "acking",
                          !.outcome = [ Outcome(IF ok THEN "audit_ok" ELSE "audit_failed",
                                                FALSE, "n/a", NoResult)
                                        EXCEPT !.request = AuditRequest(me.monitor.url, me.strategy),
                                               !.events = IF ok THEN << "audit_finished" >>
                                                          ELSE << "audit_failed" >>,
                                               !.audit = audit ]]]
    /\ UNCHANGED <<results, queue, pc, delivery, outcome, acks, breaker, now,
                   probe_in, probe_out, stats_call, ax, producer,
                   wire, consumer, batch, factory, api, report>>

\* worker.py:176 basic_ack.
pool_ack(w) ==
    /\ pool[w].pc = "acking"
    /\ pool' = [pool EXCEPT ![w] = IdleWorker(@.breaker)]
    /\ UNCHANGED <<monitors, results, queue, pc, delivery, outcome, acks, breaker, now,
                   probe_in, probe_out, stats_call, ax, producer,
                   wire, consumer, batch, factory, api, report>>

\* app.py:269-277 DELETE /monitors/{monitor_id} for a monitor of the table.
app_delete_monitor(monitor_id) ==
    /\ monitor_id \in DOMAIN monitors
    /\ monitors' = [id \in DOMAIN monitors \ {monitor_id} |-> monitors[id]]
    /\ results' = Cascade(results, monitor_id)
    /\ UNCHANGED <<queue, pc, delivery, outcome, acks, breaker, now,
                   probe_in, probe_out, stats_call, ax, producer, aside>>

\* db.py:46-54: the rows checked before the cutoff are deleted.
cleanup_old_results(days) ==
    /\ LET cutoff == now - days * SecondsPerDay
       IN  results' = SelectSeq(results, LAMBDA row : ~(row.checked_at < cutoff))
    /\ UNCHANGED <<monitors, queue, pc, delivery, outcome, acks, breaker, now,
                   probe_in, probe_out, stats_call, ax, producer, aside>>

\* The processes at work on checks, with the database and the alert print
\* failing at will; the API deletes monitors, the sweep runs, time passes.
NextPool ==
    \/ \E id \in PoolMonitorIds : publish_check(id, "check", "mobile")
    \/ \E w \in WorkerIds : pool_deliver(w)
    \/ \E w \in WorkerIds : pool_query(w, "ok")
    \/ \E w \in WorkerIds, resp \in {HttpResp(200, 120), HttpResp(500, 120)} :
          pool_probe(w, resp, TRUE)
    \/ \E w \in WorkerIds, db \in {"ok", "commit_fails"} : pool_commit(w, db)
    \/ \E w \in WorkerIds : pool_ack(w)
    \/ \E id \in PoolMonitorIds : app_delete_monitor(id)
    \/ \E days \in {0, retention_days} : cleanup_old_results(days)
    \/ Tick

SpecPool == InitPool /\ [][NextPool]_vars

\* The processes at work on checks and audits of sites that are down; the alert
\* print fails at will in the first process (its standard output is closed) and
\* never in the others.
NextBreakers ==
    \/ \E id \in PoolMonitorIds : publish_check(id, "check", "mobile")
    \/ publish_check(1, "audit", "mobile")
    \/ \E w \in WorkerIds : pool_deliver(w)
    \/ \E w \in WorkerIds : pool_query(w, "ok")
    \/ \E w \in WorkerIds : \E alert_ok \in (IF w = 1 THEN BOOLEAN ELSE {TRUE}) :
          pool_probe(w, HttpResp(500, 120), alert_ok)
    \/ \E w \in WorkerIds : pool_commit(w, "ok")
    \/ \E w \in WorkerIds, audit \in AuditResults : pool_audit(w, audit, "ok")
    \/ \E w \in WorkerIds : pool_ack(w)

SpecBreakers == InitPool /\ [][NextBreakers]_vars

\* The processes at work on checks and audits while the API deletes monitors:
\* tasks published for a monitor outlive it on the queue.
NextOrphans ==
    \/ \E id \in PoolMonitorIds, task_type \in {"check", "audit"} :
          publish_check(id, task_type, "mobile")
    \/ \E w \in WorkerIds : pool_deliver(w)
    \/ \E w \in WorkerIds : pool_query(w, "ok")
    \/ \E w \in WorkerIds : pool_probe(w, HttpResp(200, 120), TRUE)
    \/ \E w \in WorkerIds : pool_commit(w, "ok")
    \/ \E w \in WorkerIds, audit \in AuditResults : pool_audit(w, audit, "ok")
    \/ \E w \in WorkerIds : pool_ack(w)
    \/ \E id \in PoolMonitorIds : app_delete_monitor(id)

SpecOrphans == InitPool /\ [][NextOrphans]_vars

\* The monitors table as the application finds it: the strategy column of a
\* row holds one of the device profiles.
InitSchedule ==
    /\ monitors \in { [id \in PoolMonitorIds |-> [NewMonitor(id) EXCEPT !.strategy = profile[id]]] :
                         profile \in [PoolMonitorIds -> Strategies] }
    /\ results = << >>
    /\ queue = << >>
    /\ pc = "idle"
    /\ delivery = NoTask
    /\ outcome = NoOutcome
    /\ acks = 0
    /\ breaker = NewBreaker(0)
    /\ now = 0
    /\ probe_in = NoProbe
    /\ probe_out = << >>
    /\ stats_call = NoCall
    /\ ax = NoAudit
    /\ producer = NoRun
    /\ wire = << >> /\ consumer = << >> /\ batch = << >> /\ factory = << >> /\ api = << >>
    /\ report = << >>
    /\ pool = [w \in WorkerIds |-> IdleWorker(NewBreaker(0))]

\* The hourly audit job of app.py and the processes that consume its tasks.
NextSchedule ==
    \/ JobStart("audit")
    \/ JobPublish("ok")
    \/ JobEnd
    \/ \E w \in WorkerIds : pool_deliver(w)
    \/ \E w \in WorkerIds : pool_query(w, "ok")
    \/ \E w \in WorkerIds, audit \in AuditResults : pool_audit(w, audit, "ok")
    \/ \E w \in WorkerIds : pool_ack(w)

SpecSchedule == InitSchedule /\ [][NextSchedule]_vars

--------------------------------------------------------------------------
\* Vocabulary of the properties.

\* The step in which callback handles its delivery, and the step of basic_ack.
CallbackStep == pc = "processing" /\ pc' = "acking"
AckStep == acks' = acks + 1

\* The delivery is a check task (any task_type but "audit") for a monitor of the table.
IsCheckTask(body) ==
    /\ body.kind = "object"
    /\ body.monitor_id # NoneInt /\ body.monitor_id # 0
    /\ body.task_type # "audit"
IsAuditTask(body) ==
    /\ body.kind = "object"
    /\ body.monitor_id # NoneInt /\ body.monitor_id # 0
    /\ body.task_type = "audit"
CheckCall == CallbackStep /\ IsCheckTask(delivery) /\ delivery.monitor_id \in DOMAIN monitors

\* The breaker's three states, read off its fields and the clock.
IsClosed == breaker.state = "closed"
IsOpen == breaker.state = "open" /\ now < breaker.opened + recovery_timeout
IsHalfOpen == breaker.state = "open" /\ now >= breaker.opened + recovery_timeout

\* The rows of one monitor.
RowsOf(id) == { i \in 1 .. Len(results) : results[i].monitor_id = id }
UpRowsOf(id) == { i \in RowsOf(id) : results[i].is_up }

\* An acknowledged delivery, seen after the ack.
Acked == pc = "idle" /\ acks = 1

--------------------------------------------------------------------------
\* C1 (as claimed): no check task is acknowledged without its result having been
\* persisted: when a delivery whose probe gave a result is acknowledged, a row with
\* that result is in the table.
C1_AckOnlyAfterPersist ==
    (Acked /\ outcome.result # NoResult) =>
        \E i \in 1 .. Len(results) :
            /\ results[i].is_up = outcome.result.is_up
            /\ results[i].status_code = outcome.result.status_code
            /\ results[i].response_ms = outcome.result.response_ms
            /\ results[i].error = outcome.result.error

\* C1 (amended): a delivery is acknowledged only after callback has finished with
\* it, and when its CheckResult was committed that row is in the table before the
\* ack; a delivery leaves the worker only by that ack or, when the worker dies
\* first, by going back to the head of the queue.
C1_AckAfterProcessing ==
    [][ /\ AckStep =>
              /\ pc = "acking"
              /\ outcome.kind # "none"
              /\ outcome.kind = "persisted" =>
                    /\ results # << >>
                    /\ results[Len(results)].monitor_id = delivery.monitor_id
                    /\ results[Len(results)].is_up = outcome.result.is_up
                    /\ results[Len(results)].status_code = outcome.result.status_code
        /\ (delivery # NoTask /\ delivery' = NoTask /\ ~AckStep) =>
              (queue' # << >> /\ Head(queue') = delivery)
      ]_vars

C1_Witness == Acked /\ outcome.kind = "persisted" /\ results # << >>

\* C2 (as claimed): total_checks is the number of the monitor's CheckResult rows and
\* successful_checks the number of those with is_up.
C2_StatsMatchResultLog ==
    \A id \in DOMAIN monitors :
        /\ monitors[id].total_checks = Cardinality(RowsOf(id))
        /\ monitors[id].successful_checks = Cardinality(UpRowsOf(id))

\* C3 (as claimed): after 5 consecutive failed probes in one worker process the
\* breaker is open.  (Where nothing but the probed site fails, every probe leaves
\* its row, so the last rows are the last probes.)
C3_OpenAfterFiveFailures ==
    ( /\ Len(results) >= failure_threshold
      /\ \A i \in (Len(results) - failure_threshold + 1) .. Len(results) : ~results[i].is_up )
        => breaker.state = "open"

\* C4: an open breaker rejects every call until recovery_timeout has passed; it
\* becomes half-open by the passing of time only; the one call made while half-open
\* goes through and closes the breaker (failures forgotten) when it returns, opens it
\* again with a fresh timer when it raises; closed never becomes half-open and open
\* never becomes closed in one step; only a check call changes the breaker.
C4_BreakerTransitions ==
    [][ \/ Crash
        \/ /\ IsClosed => ~IsHalfOpen'
           /\ IsOpen => ~IsClosed'
           /\ (IsOpen /\ IsHalfOpen') => (now' > now /\ breaker' = breaker)
           /\ (IsOpen /\ CheckCall /\ outcome'.kind # "query_failed") =>
                 (outcome'.kind = "rejected" /\ ~outcome'.probed /\ breaker' = breaker)
           /\ (IsHalfOpen /\ CheckCall /\ outcome'.kind # "query_failed") =>
                 /\ outcome'.probed
                 /\ ~IsHalfOpen'
                 /\ outcome'.kind \in {"persisted", "commit_failed"} =>
                       (IsClosed' /\ breaker'.failure_count = 0)
                 /\ outcome'.kind = "wrapped_raised" =>
                       (IsOpen' /\ breaker'.opened = now)
           /\ breaker' # breaker => CheckCall
      ]_vars

C4_Witness ==
    /\ outcome.cb_before = "half_open"
    /\ outcome.kind = "persisted"
    /\ IsClosed /\ breaker.failure_count = 0

\* C5: a check met by an open breaker ends as a rejection, which is no probe result:
\* no probe is made, no CheckResult is added, no monitor is written, nothing is put
\* back on the queue, and the delivery is acknowledged.
C5_RejectionIsSkipped ==
    [][ /\ (CheckCall /\ IsOpen /\ outcome'.kind # "query_failed") =>
              /\ outcome'.kind = "rejected" /\ ~outcome'.probed
              /\ results' = results /\ monitors' = monitors /\ queue' = queue
        /\ (CallbackStep /\ outcome'.kind = "rejected") =>
              (results' = results /\ monitors' = monitors /\ queue' = queue)
        /\ (pc = "acking" /\ outcome.kind = "rejected" /\ pc' # "acking" /\ ~Crash) =>
              (AckStep /\ queue' = queue /\ results' = results)
      ]_vars

C5_Witness == Acked /\ outcome.kind = "rejected" /\ ~outcome.probed

\* C6: whatever callback meets, the delivery is then acknowledged, once, and is never
\* put back on the queue.
C6_AlwaysAckedOnce ==
    [][ /\ (pc = "processing" /\ pc' # "processing" /\ ~Crash) =>
              (pc' = "acking" /\ queue' = queue /\ delivery' = delivery /\ acks' = 0)
        /\ (pc = "acking" /\ pc' # "acking" /\ ~Crash) =>
              (AckStep /\ acks' = 1 /\ queue' = queue /\ delivery' = NoTask)
        /\ acks' <= 1
      ]_vars

C6_Witness == Acked /\ outcome.kind = "decode_error"

\* C7: a probe that got an HTTP response is up exactly when 200 <= status < 400, and
\* reports that status.
C7_UpIffStatusInRange ==
    (probe_out # << >> /\ probe_in.kind = "http") =>
        /\ ~probe_out[1].raised
        /\ probe_out[1].value.is_up <=> (200 <= probe_in.status /\ probe_in.status < 400)
        /\ probe_out[1].value.status_code = probe_in.status
        /\ probe_in.status \in {200, 399} => probe_out[1].value.is_up
        /\ probe_in.status \in {199, 400, 500} => ~probe_out[1].value.is_up

C7_Witness ==
    probe_out # << >> /\ probe_in.kind = "http" /\ probe_in.status = 399
        /\ probe_out[1].value.is_up

\* C8: a probe that met an exception returns, with is_up false, no status code and
\* an error text.
C8_ExceptionBecomesResult ==
    (probe_out # << >> /\ probe_in.kind = "exc") =>
        /\ ~probe_out[1].raised
        /\ ~probe_out[1].value.is_up
        /\ probe_out[1].value.status_code = NoneInt
        /\ probe_out[1].value.error # NoneStr
        /\ probe_out[1].value.error = probe_in.text

C8_Witness ==
    probe_out # << >> /\ probe_in.kind = "exc" /\ probe_in.text = "timed out"
        /\ ~probe_out[1].raised

\* C9 (as claimed): retry_attempts of a row is between 0 and the monitor's
\* retry_count, and a probe that met a transport failure has used all its retries.
C9_RetryAccounting ==
    \A i \in 1 .. Len(results) :
        /\ 0 <= results[i].retry_attempts
        /\ results[i].retry_attempts <= monitors[results[i].monitor_id].retry_count
        /\ results[i].status_code = NoneInt =>
              results[i].retry_attempts = monitors[results[i].monitor_id].retry_count

\* C10 (as claimed): every check task for an existing monitor that the breaker
\* admits, and whose probe gave a result, appends exactly one row.
C10_AdmittedCheckAppendsRow ==
    [][ (CheckCall /\ ~IsOpen /\ outcome'.result # NoResult) =>
            Len(results') = Len(results) + 1 ]_vars

\* C10 (amended): a check task for an existing monitor that the breaker admits ends
\* persisted, or with a database error, or with an exception of the wrapped call; when
\* persisted it appends exactly one row, which carries the monitor's id and the
\* probe's is_up, status_code, response_ms and error (HTTP 500 gives is_up false);
\* every other delivery, audits included, appends none.
C10_PersistedCheckAppendsOneRow ==
    [][ CallbackStep =>
          /\ (CheckCall /\ ~IsOpen) =>
                outcome'.kind \in {"persisted", "commit_failed", "wrapped_raised", "query_failed"}
          /\ outcome'.kind = "persisted" =>
                /\ CheckCall /\ ~IsOpen
                /\ Len(results') = Len(results) + 1
                /\ SubSeq(results', 1, Len(results)) = results
                /\ LET row == results'[Len(results')]
                   IN  /\ row.monitor_id = delivery.monitor_id
                       /\ row.is_up = outcome'.result.is_up
                       /\ row.status_code = outcome'.result.status_code
                       /\ row.response_ms = outcome'.result.response_ms
                       /\ row.error = outcome'.result.error
                       /\ row.status_code = 500 => ~row.is_up
          /\ outcome'.kind # "persisted" => results' = results
          /\ IsAuditTask(delivery) => results' = results
      ]_vars

C10_Witness ==
    /\ pc = "acking" /\ outcome.kind = "persisted"
    /\ results # << >>
    /\ results[Len(results)].status_code = 500
    /\ ~results[Len(results)].is_up

--------------------------------------------------------------------------
\* The distance of a and b.
Dist(a, b) == IF a >= b THEN a - b ELSE b - a

\* C11: after any sequence of update_stats calls, a monitor with total_checks >= 1
\* has 0 <= successful_checks <= total_checks, an uptime_percentage between 0 and
\* 100, and that uptime is successful_checks / total_checks * 100 rounded to two
\* decimals (no other hundredth is nearer), whatever the calls before were.
C11_UptimeFromCounters ==
    \A id \in DOMAIN monitors :
        LET m == monitors[id]
        IN  m.total_checks >= 1 =>
               /\ 0 <= m.successful_checks /\ m.successful_checks <= m.total_checks
               /\ 0 <= m.uptime_percentage /\ m.uptime_percentage <= 10000
               /\ 2 * Dist(m.uptime_percentage * m.total_checks, m.successful_checks * 10000)
                      <= m.total_checks
               /\ m.successful_checks = m.total_checks => m.uptime_percentage = 10000
               /\ m.successful_checks = 0 => m.uptime_percentage = 0

C11_Witness ==
    \E id \in DOMAIN monitors :
        /\ monitors[id].total_checks = 3
        /\ monitors[id].successful_checks = 2
        /\ monitors[id].uptime_percentage = 6667

\* C12: every update_stats(is_up, response_ms) adds exactly 1 to total_checks, adds
\* 1 to successful_checks when is_up and 0 otherwise, and sets last_status to is_up;
\* and from every state, the same sample applied twice adds 2 to total_checks and
\* 2 or 0 to successful_checks.
C12_CountersStep ==
    [][ LET id == stats_call'.id
            is_up == stats_call'.is_up
            a == monitors[id]
            b == monitors'[id]
        IN  /\ b.total_checks = a.total_checks + 1
            /\ b.successful_checks = a.successful_checks + (IF is_up THEN 1 ELSE 0)
            /\ b.last_status = PyBool(is_up)
            /\ \A up \in BOOLEAN, ms \in SampleMs :
                  LET twice == update_stats(update_stats(a, up, ms), up, ms)
                  IN  /\ twice.total_checks = a.total_checks + 2
                      /\ twice.successful_checks =
                            a.successful_checks + (IF up THEN 2 ELSE 0)
      ]_vars

C12_Witness ==
    /\ stats_call.id \in DOMAIN monitors
    /\ ~stats_call.is_up
    /\ monitors[stats_call.id].total_checks = 2
    /\ monitors[stats_call.id].successful_checks = 1
    /\ monitors[stats_call.id].last_status = "False"

\* C13 (as claimed): a sample that is down or has no response time leaves
\* avg_response_ms as it was; the first successful sample s makes it s; every later
\* successful sample s makes it old * 0.8 + s * 0.2 rounded to the nearest integer.
C13_EmaRoundsToNearest ==
    [][ LET id == stats_call'.id
            is_up == stats_call'.is_up
            s == stats_call'.response_ms
            old == monitors[id].avg_response_ms
            new == monitors'[id].avg_response_ms
        IN  IF ~is_up \/ s = NoneInt THEN new = old
            ELSE IF old = NoneInt THEN new = s
            ELSE Dist(10 * new, 8 * old + 2 * s) <= 5
      ]_vars

--------------------------------------------------------------------------
\* Vocabulary of the audit executor's properties: the call is over; the answers it
\* got before its last request; those answers were all 429.
AuditOver == ax.out # << >>
Is429(r) == r.kind = "http" /\ r.status = 429
IsOtherStatus(r) == r.kind = "http" /\ r.status # 200 /\ r.status # 429
Retried == 1 .. (ax.out[1].requests - 1)
OnlyRateLimited == \A i \in Retried : Is429(ax.answers[i])

\* C14: whatever the API answers, check makes at least 1 and at most 3 requests and
\* returns a record (it does not raise); when every answer is a 429 it makes exactly
\* 3 requests, waits exactly twice and returns the error record of the rate limit.
C14_RetryCeiling ==
    AuditOver =>
        LET out == ax.out[1]
        IN  /\ 1 <= out.requests /\ out.requests <= 3
            /\ ~out.call.raised
            /\ Len(out.sleeps) <= 2
            /\ (\A i \in 1 .. 3 : Is429(ax.answers[i])) =>
                  /\ out.requests = 3
                  /\ Len(out.sleeps) = 2
                  /\ out.call.value.error = LimitReached
                  /\ out.call.value.perf_score = NoneInt

C14_Witness ==
    /\ AuditOver
    /\ \A i \in 1 .. 3 : Is429(ax.answers[i])
    /\ ax.out[1].requests = 3 /\ Len(ax.out[1].sleeps) = 2

\* C15: when the answers before the last request were all 429, the wait before the
\* k-th retry was 5 * 2^(k-1) seconds (5, then 10), there is one wait per retry and
\* none after the last request; and when that last request is answered by a 200 with
\* a report, the record has the scores and no error.
C15_BackoffDoubles ==
    (AuditOver /\ OnlyRateLimited) =>
        LET out == ax.out[1]
        IN  /\ Len(out.sleeps) = out.requests - 1
            /\ \A k \in 1 .. Len(out.sleeps) : out.sleeps[k] = 5 * 2 ^ (k - 1)
            /\ ax.answers[out.requests] = AuditHttp(200, "report") =>
                  /\ out.call.value.error = NoneStr
                  /\ out.call.value.perf_score # NoneInt

C15_Witness ==
    /\ AuditOver
    /\ Is429(ax.answers[1]) /\ Is429(ax.answers[2])
    /\ ax.answers[3] = AuditHttp(200, "report")
    /\ ax.out[1].sleeps = <<5, 10>>
    /\ ax.out[1].call.value.error = NoneStr

\* C16 (as claimed): with exceptions and 429 answers in any order, check makes at
\* most 3 requests, gives an error record for them only after the third, and waits
\* 5 s before the first retry and twice the wait before on every further one.
C16_ExceptionBackoffDoubles ==
    AuditOver =>
        LET out == ax.out[1]
        IN  /\ out.requests <= 3
            /\ (\A i \in 1 .. out.requests : Is429(ax.answers[i]) \/ ax.answers[i].kind = "exc") =>
                  (out.requests = 3 /\ out.call.value.error # NoneStr)
            /\ \A k \in 1 .. Len(out.sleeps) : out.sleeps[k] = 5 * 2 ^ (k - 1)

\* C17: a response with a status other than 200 and 429 ends the call: it is the
\* answer to the last request made, the record returned is an error record, and no
\* wait follows it (there are only the waits of the retries before it).
C17_OtherStatusIsTerminal ==
    AuditOver =>
        LET out == ax.out[1]
        IN  /\ \A i \in 1 .. out.requests : IsOtherStatus(ax.answers[i]) => i = out.requests
            /\ IsOtherStatus(ax.answers[out.requests]) =>
                  /\ out.call.value.error # NoneStr
                  /\ out.call.value.error # LimitReached
                  /\ out.call.value.perf_score = NoneInt
                  /\ Len(out.sleeps) = out.requests - 1
            /\ \A i \in 1 .. 3 :
                  (IsOtherStatus(ax.answers[i]) /\ \A j \in 1 .. (i - 1) : ~IsOtherStatus(ax.answers[j])
                      /\ ax.answers[j] # AuditHttp(200, "report"))
                    => out.requests = i

C17_Witness ==
    /\ AuditOver
    /\ ax.answers[1] = AuditHttp(500, NoneStr)
    /\ ax.answers[2] = AuditHttp(200, "report")
    /\ ax.out[1].requests = 1
    /\ ax.out[1].sleeps = << >>
    /\ ax.out[1].call.value.error = "API Error 500"

--------------------------------------------------------------------------
\* Vocabulary of the producer's properties: a job starts; a job is under way; how
\* often id is in the sequence s; the monitors the run has dealt with.
JobStarts == producer.job = "none" /\ producer'.job # "none"
JobRuns == producer.job # "none"
Times(s, id) == Cardinality({ i \in 1 .. Len(s) : s[i] = id })
Dealt == producer.enumerated \ { producer.todo[i] : i \in 1 .. Len(producer.todo) }

\* C18: a periodic job takes exactly the monitors that are active when it reads the
\* table, and publishes without changing that set; every task it puts on the queue
\* is a task of its type for one of those monitors; outside a job the queue grows
\* only by the audit task of a manual trigger, whatever is_active of its monitor is.
C18_OnlyActivePublished ==
    [][ /\ JobStarts =>
              /\ producer'.enumerated = { id \in DOMAIN monitors : monitors[id].is_active }
              /\ { producer'.todo[i] : i \in 1 .. Len(producer'.todo) } = producer'.enumerated
              /\ queue' = queue
        /\ (JobRuns /\ producer'.job # "none") => producer'.enumerated = producer.enumerated
        /\ (JobRuns /\ queue' # queue) =>
              \E id \in producer.enumerated :
                  queue' = Append(queue, JsonObject(id, producer.job, "mobile"))
        /\ (~JobRuns /\ queue' # queue) =>
              /\ producer'.manual # << >>
              /\ \E strategy \in Strategies :
                    queue' = Append(queue, JsonObject(producer'.manual[1].id, "audit", strategy))
      ]_vars

C18_Witness ==
    /\ producer.job = "check"
    /\ producer.enumerated = {1} /\ producer.sent = <<1>> /\ producer.todo = << >>
    /\ ~monitors[2].is_active
    /\ producer.manual = << [id |-> 2, is_active |-> FALSE] >>
    /\ queue = << JsonObject(2, "audit", "desktop"), JsonObject(1, "check", "mobile") >>

\* The run so far: a monitor it has not dealt with has no task from it, one it has
\* dealt with has at most one, and exactly one when its publish_check returned; the
\* tasks are the last ones of the queue, of the job's type.
RunSoFar ==
    JobRuns =>
        /\ \A id \in DOMAIN monitors :
              /\ Times(producer.sent, id) <= 1
              /\ id \notin Dealt => Times(producer.sent, id) = 0
              /\ (id \in Dealt /\ id \notin producer.raised) => Times(producer.sent, id) = 1
        /\ Len(queue) >= Len(producer.sent)
        /\ \A i \in 1 .. Len(producer.sent) :
              queue[Len(queue) - Len(producer.sent) + i]
                  = JsonObject(producer.sent[i], producer.job, "mobile")

\* C19: in a run of a job, every monitor read as active gets exactly one task of the
\* job's type when its publish succeeds and at most one otherwise; a publish that
\* raises is followed by the publish for the next monitor, and the job goes on to
\* its end.
C19_OneTaskPerActiveMonitor ==
    [][ /\ RunSoFar'
        /\ (JobRuns /\ producer.todo # << >> /\ producer' # producer) =>
              /\ producer'.job = producer.job
              /\ producer'.todo = Tail(producer.todo)
              /\ producer'.raised \subseteq producer.raised \cup {Head(producer.todo)}
        /\ (JobRuns /\ producer'.job = "none") => producer.todo = << >>
      ]_vars

C19_Witness ==
    /\ producer.job = "audit"
    /\ producer.enumerated = {1, 2} /\ producer.todo = << >>
    /\ producer.raised = {1} /\ producer.sent = <<2>>
    /\ queue = << JsonObject(2, "audit", "mobile") >>

--------------------------------------------------------------------------
\* C20 (as claimed): the probe of a check task is made with the url, the timeout and
\* the retry limit of the monitor's row as it is when the task is consumed.
C20_PolicyFromMonitorRow ==
    (pc = "acking" /\ outcome.probed) =>
        LET m == monitors[delivery.monitor_id]
        IN  /\ outcome.request.url = m.url
            /\ outcome.request.timeout = m.timeout_seconds
            /\ outcome.request.retries = m.retry_count

--------------------------------------------------------------------------
\* Vocabulary of the wire format's properties: callback has handled a message that
\* publish_check made from arguments that were all given.
WireDone == wire # << >> /\ wire.got # << >>
WirePublished ==
    /\ WireDone /\ wire.via = "publish_check"
    /\ wire.args.task_type # AbsentStr /\ wire.args.strategy # AbsentStr
HandlerOf(task_type) == IF task_type = "audit" THEN "process_audit" ELSE "process_check"

\* C21 (as claimed): for every integer monitor_id, task_type check or audit and
\* strategy string, callback decodes the message of publish_check into the same
\* three values and gives it to the handler of its task_type.
C21_RoundTripEveryId ==
    WirePublished =>
        /\ wire.got[1].monitor_id = wire.args.monitor_id
        /\ wire.got[1].task_type = wire.args.task_type
        /\ wire.got[1].strategy = wire.args.strategy
        /\ wire.got[1].handler = HandlerOf(wire.args.task_type)

\* C21 (amended): the three values always come back as they were published; the
\* message goes to the handler of its task_type when monitor_id is not 0, and to no
\* handler when it is 0; a message without the key strategy decodes to "mobile".
C21_RoundTripNonZeroId ==
    /\ WirePublished =>
          /\ wire.got[1].monitor_id = wire.args.monitor_id
          /\ wire.got[1].task_type = wire.args.task_type
          /\ wire.got[1].strategy = wire.args.strategy
          /\ wire.args.monitor_id # 0 => wire.got[1].handler = HandlerOf(wire.args.task_type)
          /\ wire.args.monitor_id = 0 => wire.got[1].handler = "none"
    /\ (WireDone /\ wire.args.strategy = AbsentStr) => wire.got[1].strategy = "mobile"

C21_Witness ==
    /\ WirePublished
    /\ wire.args = [monitor_id |-> 40, task_type |-> "audit", strategy |-> "desktop"]
    /\ wire.got[1] = [handler |-> "process_audit", monitor_id |-> 40, task_type |-> "audit",
                      strategy |-> "desktop"]

--------------------------------------------------------------------------
\* C22: the worker holds a delivery exactly while it is not idle, so never more than
\* one; a delivery is handed over only when the worker is idle and holds none (the
\* one before was acknowledged, or the process was started again); and the breaker,
\* the check_results table and the monitors change only in the step in which
\* callback handles the one delivery held (the breaker also when the process is
\* started again).
C22_OneTaskAtATime ==
    [][ /\ (pc = "idle") <=> (delivery = NoTask)
        /\ (pc' = "idle") <=> (delivery' = NoTask)
        /\ (delivery' # delivery /\ delivery' # NoTask) =>
              /\ pc = "idle" /\ delivery = NoTask
              /\ outcome.kind # "none" => acks = 1
        /\ breaker' # breaker => (CallbackStep \/ breaker' = NewBreaker(now))
        /\ (results' # results \/ monitors' # monitors) => (CallbackStep /\ delivery' = delivery)
      ]_vars

C22_Witness ==
    /\ pc = "processing" /\ delivery # NoTask /\ acks = 0
    /\ breaker.failure_count = 1

--------------------------------------------------------------------------
\* C23: the handler sends check_finished after a check whose row was committed,
\* audit_finished after an audit without error whose commit went through,
\* audit_failed after an audit that failed, and nothing otherwise; whatever becomes
\* of the POST, the row of the check is in the table, the handler ends as it would
\* have, and the delivery is acknowledged next, with table and queue left alone.
C23_NotificationBestEffort ==
    [][ /\ CallbackStep =>
              /\ outcome'.kind \in {"persisted", "audit_ok", "audit_failed"}
                    => outcome'.notify \in NotifyAnswers
              /\ outcome'.kind = "persisted" =>
                    /\ outcome'.events = << "check_finished" >>
                    /\ Len(results') = Len(results) + 1
                    /\ results'[Len(results')].is_up = outcome'.result.is_up
              /\ outcome'.kind = "audit_ok" => outcome'.events = << "audit_finished" >>
              /\ outcome'.kind = "audit_failed" => outcome'.events = << "audit_failed" >>
              /\ outcome'.kind \notin {"persisted", "audit_ok", "audit_failed"} =>
                    (outcome'.events = << >> /\ outcome'.kind # "notify_raised")
              /\ (IsAuditTask(delivery) /\ outcome'.notify \in NotifyAnswers) =>
                    outcome'.kind \in {"audit_ok", "audit_failed"}
        /\ (pc = "acking" /\ pc' # "acking") =>
              (AckStep /\ acks' = 1 /\ results' = results /\ queue' = queue)
      ]_vars

C23_Witness ==
    /\ Acked
    /\ outcome.kind = "persisted" /\ outcome.notify = "raises"
    /\ outcome.events = << "check_finished" >>
    /\ results # << >>

--------------------------------------------------------------------------
\* C24 (as claimed): once an audit task whose audit gave a score record has been
\* processed, the monitor's row holds the score of the record (95.0 for 0.95).
C24_ScoreWrittenToMonitor ==
    (pc = "acking" /\ outcome.kind = "audit_ok")
        => monitors[delivery.monitor_id].perf_score = outcome.audit.perf_score

--------------------------------------------------------------------------
\* C25 (as claimed): perf_details holds the 10 lowest-scoring of the sub-audits with
\* a score below 0.9, all of them when they are at most 10, as title, description
\* and score, in the order of the payload: no entry without a score or at 0.9 or
\* above, never more than 10, and no failing sub-audit left out that scores lower
\* than one that is in.
C25_TenLowestScoring ==
    report.out # << >> =>
        LET failing == FailingAudits(report.payload.audits)
            details == report.out[1].perf_details
            Range(s) == { s[i] : i \in DOMAIN s }
        IN  /\ Len(details) = (IF Len(failing) < 10 THEN Len(failing) ELSE 10)
            /\ \A d \in Range(details) : d.score # NoneInt /\ d.score < 90
            /\ Range(details) \subseteq Range(failing)
            /\ \A i, j \in DOMAIN details :
                  i < j => \E k, l \in DOMAIN failing :
                              k < l /\ failing[k] = details[i] /\ failing[l] = details[j]
            /\ \A a \in Range(failing) \ Range(details), d \in Range(details) :
                  a.score >= d.score

--------------------------------------------------------------------------
\* The entries of the record of main that are s.
CountOf(log, s) == Cardinality({ i \in DOMAIN log : log[i] \in s })

\* C26: main connects at most 5 times, every failure uses up one of its 5 retries,
\* it pauses 5 seconds after each failure but the last, and after the last one the
\* process exits with status 1; while it runs it either holds a consumer or has
\* attempts left.
C26_BoundedReconnect ==
    consumer # << >> =>
        LET attempts == CountOf(consumer.log, {"connected", "connect_failed"})
            failures == CountOf(consumer.log, {"connect_failed", "consume_failed"})
        IN  /\ attempts <= 5
            /\ failures + consumer.retries = 5
            /\ \A i \in DOMAIN consumer.slept : consumer.slept[i] = 5
            /\ Len(consumer.slept) = (IF consumer.phase \in {"sleeping", "exited"}
                                      THEN failures - 1 ELSE failures)
            /\ (consumer.phase = "exited") <=> (failures = 5)
            /\ consumer.phase = "exited" => consumer.exit = 1
            /\ consumer.phase \in {"connecting", "sleeping", "consuming"} =>
                  (consumer.retries > 0 /\ consumer.exit = NoneInt)
            /\ consumer.phase = "returned" => consumer.exit = 0

C26_Witness ==
    /\ consumer # << >>
    /\ consumer.phase = "exited" /\ consumer.exit = 1
    /\ CountOf(consumer.log, {"connect_failed"}) = 5
    /\ Len(consumer.slept) = 4

--------------------------------------------------------------------------
--------------------------------------------------------------------------
\* C28: get_strategy returns the HTTP strategy for the key "http", the audit
\* strategy for the key "performance", and raises ValueError for every other key.
C28_FactoryKeys ==
    (factory # << >> /\ factory.out # << >> /\ factory.strategy_type # AbsentStr) =>
        LET key == factory.strategy_type
            got == factory.out[1]
        IN  /\ key = "http" => got = Returned("HTTPCheckStrategy")
            /\ key = "performance" => got = Returned("PerformanceAuditStrategy")
            /\ key \notin {"http", "performance"} =>
                  (got.raised /\ SubSeq(got.value, 1, 10) = "ValueError")

C28_Witness ==
    /\ factory # << >> /\ factory.out # << >>
    /\ factory.strategy_type = "unknown"
    /\ factory.out[1].raised

--------------------------------------------------------------------------
\* The request answered last came with a token in force of a user of role admin,
\* of any user.
ByUser(a) == ~get_current_user(a.token, now).raised
ByAdmin(a) == ByUser(a) /\ get_current_user(a.token, now).value.role = "admin"

\* C29: a list request without a valid token is answered 401; a login with the
\* password of the user is answered with a token for that user; a create or delete
\* of a user who is not admin is answered 403, one without valid token 401, and
\* only a request of an admin is answered with success or changes the monitors.
C29_AccessControl ==
    [][ /\ (api'.request = "list" /\ ~ByUser(api')) => api'.response.status_code = 401
        /\ (api'.request = "login" /\ api'.response.status_code = 200) =>
              /\ api'.response.access_token \in api'.issued
              /\ ByUser([token |-> api'.response.access_token])
        /\ (api'.request = "login" /\ api'.response.status_code # 200) =>
              (api'.response.status_code = 401 /\ api'.issued = api.issued)
        /\ api'.request \in {"create", "delete"} =>
              /\ ~ByUser(api') => api'.response.status_code = 401
              /\ (ByUser(api') /\ ~ByAdmin(api')) => api'.response.status_code = 403
              /\ api'.response.status_code \in {200, 201} => ByAdmin(api')
        /\ monitors' # monitors => (ByAdmin(api') /\ api'.request \in {"create", "delete"})
      ]_vars

C29_Witness ==
    /\ api # << >>
    /\ api.request = "delete" /\ api.response.status_code = 403
    /\ api.token.sub = "viewer" /\ api.token \in api.issued
    /\ DOMAIN monitors = {2}

--------------------------------------------------------------------------
\* The handling of the delivery failed: the body could not be decoded, the monitor
\* is not in the table, the database or the audit failed.
PoisonHandled ==
    /\ pc = "acking"
    /\ outcome.kind \in {"decode_error", "not_found", "query_failed", "commit_failed",
                         "audit_failed"}

\* C30: with the worker running, every message waiting in the queue is delivered,
\* every delivery is acknowledged, so the queue is drained for good; and when the
\* handling of a delivery has failed, the message behind it is processed next.
C30_QueueProgress ==
    /\ \A n \in 1 .. MaxBacklog : [](Len(queue) = n => <>(Len(queue) < n))
    /\ [](pc # "idle" => <>(pc = "idle" /\ acks = 1))
    /\ <>[](queue = << >> /\ pc = "idle" /\ delivery = NoTask)
    /\ \A body \in BacklogBodies :
          []((PoisonHandled /\ queue # << >> /\ Head(queue) = body)
                => <>(pc = "processing" /\ delivery = body))

C30_Witness ==
    /\ PoisonHandled /\ outcome.kind = "decode_error"
    /\ Len(queue) = 2
    /\ Head(queue) = PublishedBody(1, "check", AbsentStr)

--------------------------------------------------------------------------
\* The step in which process w ends the call of resilient_check, and the step in
\* which it ends process_audit.
ProbeStep(w) == pool[w].pc = "probing" /\ pool'[w].pc # "probing"
AuditStep(w) == pool[w].pc = "auditing" /\ pool'[w].pc # "auditing"

\* C31: a process has one breaker for the checks of all its monitors: a check is
\* rejected exactly when the breaker of its process is open, whichever monitor it
\* is for and whichever monitor the failures came from; a failed call counts one
\* more failure on that breaker and a call that returns resets the count; the
\* breaker of a process changes in no other step, so neither in an audit, which
\* runs whatever the state of the breaker, nor in any step of another process.
C31_SharedBreaker ==
    [][ \A w \in WorkerIds :
          /\ pool'[w].breaker # pool[w].breaker => ProbeStep(w) /\ pool'[w].outcome.probed
          /\ ProbeStep(w) =>
               /\ pool'[w].outcome.kind = "rejected" <=> CBState(pool[w].breaker, now) = "open"
               /\ pool'[w].outcome.kind = "wrapped_raised" =>
                     pool'[w].breaker.failure_count = pool[w].breaker.failure_count + 1
               /\ pool'[w].outcome.kind = "probed" => pool'[w].breaker.failure_count = 0
          /\ AuditStep(w) =>
               /\ pool'[w].outcome.kind \in {"audit_ok", "audit_failed"}
               /\ pool'[w].outcome.audit # NoOutcome.audit
               /\ pool'[w].breaker = pool[w].breaker
      ]_vars

\* The five failures of the first process have opened its breaker and it rejects
\* a check of monitor 2, and has run an audit of monitor 1 behind it; the second
\* process, its breaker closed, has made the probe of the same monitor 2.
C31_Witness ==
    /\ pool[1].outcome.kind = "rejected" /\ pool[1].monitor.id = 2
    /\ pool[1].breaker.state = "open" /\ pool[1].breaker.failure_count = failure_threshold
    /\ pool[2].outcome.kind = "probed" /\ pool[2].monitor.id = 2
    /\ pool[2].outcome.cb_before = "closed" /\ pool[2].breaker = NewBreaker(0)

--------------------------------------------------------------------------
\* The step in which process w ends db.commit() of its CheckResult.
CommitStep(w) == pool[w].pc = "committing" /\ pool'[w].pc # "committing"

\* The rows of table at the positions S, in their order.
Pick(table, S) ==
    LET F[i \in 0 .. Len(table)] ==
            IF i = 0 THEN << >>
            ELSE IF i \in S THEN Append(F[i - 1], table[i]) ELSE F[i - 1]
    IN  F[Len(table)]

\* C32: when processes handle check tasks at the same time, those of one monitor
\* included, the commit of a process adds exactly its own row, with the outcome
\* of its own probe, behind all the rows there are, and leaves these as they are;
\* a commit that fails adds nothing. So no row is lost or overwritten and the rows
\* stand in the order of the commits.
C32_EachAppendsOwnRow ==
    [][ \A w \in WorkerIds : CommitStep(w) =>
          IF pool'[w].outcome.kind = "persisted"
          THEN /\ Len(results') = Len(results) + 1
               /\ SubSeq(results', 1, Len(results)) = results
               /\ LET row == results'[Len(results')]
                  IN  /\ row.monitor_id = pool[w].monitor.id
                      /\ row.is_up = pool[w].outcome.result.is_up
                      /\ row.status_code = pool[w].outcome.result.status_code
          ELSE results' = results
      ]_vars

\* Both processes hold a check of monitor 1; the second took its message when
\* the first already held the earlier one, and its row, of a 500, is committed
\* while the first, with a 200, has yet to commit.
C32_Witness ==
    /\ pool[1].pc = "committing" /\ pool[1].behind = {} /\ pool[1].monitor.id = 1
    /\ pool[1].outcome.result.status_code = 200
    /\ pool[2].outcome.kind = "persisted" /\ pool[2].behind = {1} /\ pool[2].monitor.id = 1
    /\ Len(results) = 1 /\ results[1].status_code = 500 /\ results[1].monitor_id = 1

\* C33: the rows of a monitor carry times that never decrease along the order of
\* insertion; the time of a row is the time of its insert, whatever the task and
\* the probe were; and a step leaves every row that stays in the table as it was.
C33_CheckedAtMonotone ==
    /\ [](\A i, j \in DOMAIN results :
             (i < j /\ results[i].monitor_id = results[j].monitor_id)
                => results[i].checked_at <= results[j].checked_at)
    /\ [][ \/ \E S \in SUBSET DOMAIN results : results' = Pick(results, S)
           \/ /\ \E w \in WorkerIds : CommitStep(w)
              /\ SubSeq(results', 1, Len(results)) = results
              /\ Len(results') = Len(results) + 1
              /\ results'[Len(results')].checked_at = now
       ]_vars

\* Two rows of monitor 1, the second inserted later than the first, by the
\* process that took its message first.
C33_Witness ==
    /\ Len(results) = 2
    /\ results[1].monitor_id = 1 /\ results[2].monitor_id = 1
    /\ results[1].checked_at = 0 /\ results[2].checked_at = TickStep
    /\ pool[1].outcome.kind = "persisted" /\ pool[1].behind = {}
    /\ pool[2].pc = "idle"

--------------------------------------------------------------------------
\* The rows of before are all in after, unchanged and at their places.
Extends(before, after) ==
    /\ Len(before) <= Len(after)
    /\ SubSeq(after, 1, Len(before)) = before

\* The table after the rows checked before the time cutoff are deleted.
Swept(table, cutoff) ==
    Pick(table, { i \in DOMAIN table : ~(table[i].checked_at < cutoff) })

\* C34 as stated: only the sweep deletes rows; a step of a worker process and a
\* step that changes the table of monitors leave every row there is.
C34_OnlySweepDeletes ==
    [][ /\ (monitors' # monitors \/ pool' # pool) => Extends(results, results')
        /\ \/ Extends(results, results')
           \/ \E cutoff \in 0 .. now : results' = Swept(results, cutoff)
      ]_vars

\* C34: a row is never updated; rows are deleted by the sweep, which deletes the
\* rows older than a cutoff, and by the delete of a monitor, which deletes the
\* rows of that monitor and no other; no step of a worker process removes or
\* rewrites a row.
C34_AppendOnlyButCascade ==
    [][ /\ pool' # pool => Extends(results, results')
        /\ \/ Extends(results, results')
           \/ /\ monitors' = monitors
              /\ \E cutoff \in 0 .. now : results' = Swept(results, cutoff)
           \/ \E id \in DOMAIN monitors \ DOMAIN monitors' :
                 results' = Pick(results, { i \in DOMAIN results : results[i].monitor_id # id })
      ]_vars

\* Monitor 1 was deleted after the first process had committed a row for it: the
\* row is gone, before any row could be old, and the row of monitor 2 is there.
C34_Witness ==
    /\ now = 0
    /\ pool[1].outcome.kind = "persisted" /\ pool[1].monitor.id = 1
    /\ DOMAIN monitors = {2}
    /\ Len(results) = 1 /\ results[1].monitor_id = 2

\* C40: every row of check_results is a row of a monitor of the table, however
\* the delete of a monitor falls among the steps of the processes that check it:
\* the delete takes the rows of the monitor with it, and a commit that comes
\* after the delete inserts nothing.
C40_ReferentialIntegrity ==
    \A i \in DOMAIN results : results[i].monitor_id \in DOMAIN monitors

\* Monitor 1 was deleted between the read and the commit of the first process,
\* whose commit failed; the second process has committed a row for monitor 2.
C40_Witness ==
    /\ pool[1].outcome.kind = "commit_failed" /\ pool[1].monitor.id = 1
    /\ 1 \notin DOMAIN monitors
    /\ pool[2].outcome.kind = "persisted" /\ pool[2].monitor.id = 2
    /\ Len(results) = 1

--------------------------------------------------------------------------
\* The step in which process w has read the row of the monitor of its task.
QueryStep(w) == pool[w].pc = "received" /\ pool'[w].pc # "received"

\* The task that process w holds is a check or an audit of a monitor that is not
\* in the table.
Orphan(w) ==
    /\ Dispatch(pool[w].delivery).handler \in {"process_check", "process_audit"}
    /\ Dispatch(pool[w].delivery).monitor_id \notin DOMAIN monitors

\* C39: a check or audit task whose monitor is gone when the task is consumed
\* ends at the read of the monitor: no probe and no audit is called, no row is
\* added, no monitor is written, the breaker is not touched and no event is sent;
\* the delivery is then acknowledged like any other and does not come back.
C39_OrphanTaskIsDropped ==
    [][ \A w \in WorkerIds :
          /\ (QueryStep(w) /\ Orphan(w)) =>
                /\ pool'[w].pc = "acking"
                /\ pool'[w].outcome.kind = "not_found"
                /\ ~pool'[w].outcome.probed
                /\ pool'[w].outcome.events = << >>
                /\ pool'[w].outcome.audit = NoOutcome.audit
                /\ pool'[w].breaker = pool[w].breaker
                /\ UNCHANGED <<monitors, results>>
          /\ (pool[w].outcome.kind = "not_found" /\ pool'[w] # pool[w]) =>
                /\ pool'[w] = IdleWorker(pool[w].breaker)
                /\ UNCHANGED <<monitors, results, queue>>
      ]_vars

\* Monitor 1 was deleted with an audit and a check of it under way: both
\* processes have found no monitor, and nothing was written.
C39_Witness ==
    /\ DOMAIN monitors = {2}
    /\ pool[1].outcome.kind = "not_found"
    /\ Dispatch(pool[1].delivery).handler = "process_audit"
    /\ Dispatch(pool[1].delivery).monitor_id = 1
    /\ pool[2].outcome.kind = "not_found"
    /\ Dispatch(pool[2].delivery).handler = "process_check"
    /\ Dispatch(pool[2].delivery).monitor_id = 1
    /\ results = << >>

--------------------------------------------------------------------------
\* C38: the task that the hourly audit job publishes for a monitor carries the
\* strategy stored on that monitor, and the strategy parameter of the request to
\* the audit API is the strategy of the task consumed.
C38_ScheduledAuditUsesMonitorStrategy ==
    [][ /\ (producer.job = "audit" /\ Len(queue') = Len(queue) + 1) =>
              Dispatch(queue'[Len(queue')]).strategy = monitors[Head(producer.todo)].strategy
        /\ \A w \in WorkerIds : AuditStep(w) =>
              pool'[w].outcome.request.strategy = Dispatch(pool[w].delivery).strategy
      ]_vars

--------------------------------------------------------------------------
\* The columns of a monitor that say what it is and how it is checked, and the
\* row with its audit snapshot blanked.
ConfigOf(row) ==
    << row.id, row.url, row.is_active, row.timeout_seconds, row.retry_count, row.strategy >>
WithoutSnapshot(row) == [row EXCEPT !.perf_score = NoneInt]

\* C35 (as claimed): handling a check task changes neither the configuration nor
\* the audit snapshot of any monitor; handling an audit task changes nothing but
\* the snapshot of its monitor, which holds the result of the audit when the
\* audit succeeded and is as before when it did not.
C35_WorkerWriteFrame ==
    [][ CallbackStep =>
          /\ DOMAIN monitors' = DOMAIN monitors
          /\ \A id \in DOMAIN monitors :
                /\ IsCheckTask(delivery) =>
                      /\ ConfigOf(monitors'[id]) = ConfigOf(monitors[id])
                      /\ monitors'[id].perf_score = monitors[id].perf_score
                /\ IsAuditTask(delivery) =>
                      /\ WithoutSnapshot(monitors'[id]) = WithoutSnapshot(monitors[id])
                      /\ monitors'[id].perf_score =
                            IF id = delivery.monitor_id /\ outcome'.kind = "audit_ok"
                            THEN outcome'.audit.perf_score
                            ELSE monitors[id].perf_score
      ]_vars

--------------------------------------------------------------------------
\* The URL is an https one; the text of the exception of a failed TLS validation.
IsHttps(url) == Len(url) >= 8 /\ SubSeq(url, 1, 8) = "https://"
TlsFailed(row) == row.error = "certificate verify failed"

\* C36 (as claimed): ssl_valid of a row is false when the probe failed the TLS
\* validation, true when the probe succeeded against an https URL, and null
\* otherwise; and a probe that failed the TLS validation has used its retries.
C36_SslValidRecorded ==
    \A i \in 1 .. Len(results) :
        LET row == results[i]
            monitor == monitors[row.monitor_id]
        IN  /\ row.ssl_valid = IF TlsFailed(row) THEN PyBool(FALSE)
                               ELSE IF row.is_up /\ IsHttps(monitor.url) THEN PyBool(TRUE)
                               ELSE NoneStr
            /\ TlsFailed(row) => row.retry_attempts = monitor.retry_count

--------------------------------------------------------------------------
\* The handling of the delivery sent the event.
Emitted(events, event) == \E i \in DOMAIN events : events[i] = event

\* C37 (as claimed): when check_finished is sent, the row of the check, with the
\* is_up of the event, has been committed for the monitor of the task; when
\* audit_finished is sent, the snapshot of the audit has been committed to the
\* monitor; a check that the breaker rejected or whose commit failed sends no
\* check_finished.
C37_EventAfterCommit ==
    [][ CallbackStep =>
          /\ Emitted(outcome'.events, "check_finished") =>
                /\ Len(results') = Len(results) + 1
                /\ results'[Len(results')].monitor_id = delivery.monitor_id
                /\ results'[Len(results')].is_up = outcome'.result.is_up
          /\ Emitted(outcome'.events, "audit_finished") =>
                monitors'[delivery.monitor_id].perf_score = outcome'.audit.perf_score
          /\ outcome'.kind \in {"rejected", "commit_failed"} =>
                ~Emitted(outcome'.events, "check_finished")
      ]_vars

====
